---- MODULE Spec2Model ----
(***************************************************************************)
(* Wikipedia summary service: URL normalizer, summary store, generation   *)
(* engine and the orchestrator that composes them.                         *)
(*                                                                         *)
(* Texts are sequences of one-character strings.  A URL is the record of   *)
(* its urlsplit() components: host as a sequence of dot-separated labels,  *)
(* path as a sequence of tokens in which "/" is a token of its own, query  *)
(* as a sequence of <<key, value>> pairs.                                  *)
(***************************************************************************)
EXTENDS Integers, Sequences, FiniteSets, TLC

\* Number of requests (calls) in one run of the service.
NumCalls == 2

\* Optional values: None, or Some(v).
None == <<>>
Some(v) == <<v>>
Val(o) == o[1]

\* No exception raised.
NoExc == "none"
NoOrigin == "none"

Max(a, b) == IF a >= b THEN a ELSE b
Min(a, b) == IF a <= b THEN a ELSE b

(***************************************************************************)
(* Text helpers (str.split, str.join, str.strip, re.sub, re.split)         *)
(***************************************************************************)
Whitespace == {" ", "\n"}

RECURSIVE LStrip(_)
LStrip(t) == IF t # <<>> /\ Head(t) \in Whitespace THEN LStrip(Tail(t)) ELSE t

RECURSIVE RStripSet(_, _)
RStripSet(t, chars) ==
    IF t # <<>> /\ t[Len(t)] \in chars THEN RStripSet(SubSeq(t, 1, Len(t) - 1), chars) ELSE t

Strip(t) == RStripSet(LStrip(t), Whitespace)

\* f[lo] \o ... \o f[hi], joined by halves so that long texts stay within reach
RECURSIVE Concat(_, _, _)
Concat(f, lo, hi) ==
    IF lo > hi THEN <<>>
    ELSE IF lo = hi THEN f[lo]
    ELSE Concat(f, lo, (lo + hi) \div 2) \o Concat(f, (lo + hi) \div 2 + 1, hi)

\* The least index from i on that satisfies stop, Len(t) + 1 when none does.
FirstFrom(t, i, stop) ==
    CHOOSE j \in i..(Len(t) + 1) :
        /\ j = Len(t) + 1 \/ t[j] \in stop
        /\ \A k \in i..(j - 1) : t[k] \notin stop

\* The least index from i on that holds no whitespace, Len(t) + 1 when none does.
SkipWs(t, i) ==
    CHOOSE j \in i..(Len(t) + 1) :
        /\ j = Len(t) + 1 \/ t[j] \notin Whitespace
        /\ \A k \in i..(j - 1) : t[k] \in Whitespace

\* str.split(): the maximal runs of non-whitespace characters, in order.
Split(t) ==
    Concat([i \in 1..Len(t) |->
               IF t[i] \notin Whitespace /\ (i = 1 \/ t[i - 1] \in Whitespace)
               THEN <<SubSeq(t, i, FirstFrom(t, i, Whitespace) - 1)>> ELSE <<>>],
           1, Len(t))

\* sep.join(parts)
Join(parts, sep) ==
    Concat([i \in 1..Len(parts) |-> IF i = 1 THEN parts[i] ELSE sep \o parts[i]],
           1, Len(parts))

\* len(text.split()): one word begins at each character that is no whitespace and
\* follows whitespace or begins the text
WordCount(t) ==
    Cardinality({i \in 1..Len(t) : t[i] \notin Whitespace /\ (i = 1 \/ t[i - 1] \in Whitespace)})

\* WHITESPACE_PATTERN.sub(" ", text): every maximal whitespace run becomes one space.
Collapse(t) ==
    Concat([i \in 1..Len(t) |->
               IF t[i] \notin Whitespace THEN <<t[i]>>
               ELSE IF i > 1 /\ t[i - 1] \in Whitespace THEN <<>> ELSE <<" ">>],
           1, Len(t))

_normalize_whitespace(t) == Strip(Collapse(t))

SentenceEnd == {".", "!", "?"}

\* (?<=[.!?])\s+ matches at i: a whitespace run that follows . ! or ? begins there.
SentenceCut(t, i) == i > 1 /\ i <= Len(t) /\ t[i] \in Whitespace /\ t[i - 1] \in SentenceEnd

\* The piece that begins at i: it runs up to the next match, or to the end.
SentenceFrom(t, i) ==
    SubSeq(t, i, (CHOOSE j \in i..(Len(t) + 1) :
                     /\ j = Len(t) + 1 \/ SentenceCut(t, j)
                     /\ \A k \in i..(j - 1) : ~SentenceCut(t, k)) - 1)

\* SENTENCE_SPLIT_PATTERN.split(text): cut at every whitespace run that follows . ! or ?
SentenceSplit(t) ==
    <<SentenceFrom(t, 1)>>
    \o Concat([i \in 1..Len(t) |->
                  IF SentenceCut(t, i) THEN <<SentenceFrom(t, SkipWs(t, i))>> ELSE <<>>],
              1, Len(t))

Take(s, n) == SubSeq(s, 1, Min(n, Len(s)))

(***************************************************************************)
(* URL normalizer (app/services/wikipedia.py)                              *)
(***************************************************************************)
\* parsed.port: <<>> when the URL names no port, else <<n>>.
NoPort == <<>>

Url(scheme, host, port, path, query, fragment) ==
    [scheme |-> scheme, host |-> host, port |-> port, path |-> path,
     query |-> query, fragment |-> fragment]

\* str.lower() on the host labels the model uses.
LowerLabel(l) ==
    CASE l = "EN" -> "en"
      [] l = "PT" -> "pt"
      [] l = "WIKIPEDIA" -> "wikipedia"
      [] l = "ORG" -> "org"
      [] OTHER -> l

LowerHost(host) == [i \in 1..Len(host) |-> LowerLabel(host[i])]

\* host == "wikipedia.org" or host.endswith(".wikipedia.org")
IsWikipediaHost(host) ==
    LET n == Len(host)
    IN  /\ n >= 2
        /\ host[n - 1] = "wikipedia"
        /\ host[n] = "org"

\* The validation without its host checks: any host passes.
validate_scheme_only(parsed) ==
    IF parsed.scheme \notin {"http", "https"} THEN "URLValidationError" ELSE NoExc

\* NoExc when the URL is valid, else the URLValidationError raised.
_validate_parsed_url(parsed) ==
    IF parsed.scheme \notin {"http", "https"} THEN "URLValidationError"
    ELSE IF parsed.host = <<>> THEN "URLValidationError"
    ELSE IF ~IsWikipediaHost(LowerHost(parsed.host)) THEN "URLValidationError"
    ELSE NoExc

\* parse_qs(query).get("title", [None])[0]: the first non-blank title value.
RECURSIVE FirstTitle(_)
FirstTitle(query) ==
    IF query = <<>> THEN <<>>
    ELSE IF Head(query)[1] = "title" /\ Head(query)[2] # <<>> THEN Head(query)[2]
    ELSE FirstTitle(Tail(query))

\* quote(title.replace(" ", "_"), safe="():'")
QuoteChar(c) ==
    CASE c = " " -> "_"
      [] c = "/" -> "%2F"
      [] c = "?" -> "%3F"
      [] OTHER -> c

QuoteTitle(title) == [i \in 1..Len(title) |-> QuoteChar(title[i])]

IndexPhp == <<"/", "w", "/", "index.php">>

StartsWithWiki(path) ==
    /\ Len(path) >= 3
    /\ path[1] = "/" /\ path[2] = "wiki" /\ path[3] = "/"

\* [exc, url]: the normalized URL, or the URLValidationError raised.
normalize_wikipedia_url(url) ==
    LET invalid == [exc |-> "URLValidationError", url |-> None]
        hostname == LowerHost(url.host)
        port == IF url.port # NoPort /\ url.port[1] # 0 /\ url.port[1] \notin {80, 443}
                THEN url.port ELSE NoPort
        path0 == IF url.path = <<>> THEN <<"/">> ELSE url.path
        path1 == IF path0 # <<"/">> /\ path0[Len(path0)] = "/"
                 THEN SubSeq(path0, 1, Len(path0) - 1) ELSE path0
        index == path1 \in {IndexPhp, IndexPhp \o <<"/">>} \/ path1 = <<"/">>
        title == IF index /\ url.query # <<>> THEN FirstTitle(url.query) ELSE <<>>
        path2 == IF title # <<>> THEN <<"/", "wiki", "/">> \o QuoteTitle(title) ELSE path1
        query2 == IF title # <<>> THEN <<>> ELSE url.query
    IN  IF _validate_parsed_url(url) # NoExc THEN invalid
        ELSE IF index /\ path2 = <<"/">> /\ query2 # <<>> THEN invalid
        ELSE IF ~StartsWithWiki(path2) THEN invalid
        ELSE [exc |-> NoExc, url |-> Some(Url("https", hostname, port, path2, <<>>, ""))]

\* The URLs requests are made with.
UrlPlain == Url("https", <<"en", "wikipedia", "org">>, NoPort, <<"/", "wiki", "/", "X">>, <<>>, "")
UrlMessy == Url("http", <<"EN", "WIKIPEDIA", "ORG">>, <<443>>, <<"/", "wiki", "/", "X", "/">>, <<>>, "frag")
UrlIndex == Url("https", <<"en", "wikipedia", "org">>, NoPort, IndexPhp, << <<"title", <<"X">> >> >>, "")
UrlOther == Url("https", <<"pt", "wikipedia", "org">>, NoPort, <<"/", "wiki", "/", "Y">>, <<>>, "")
UrlForeign == Url("https", <<"example", "com">>, NoPort, <<"/", "wiki", "/", "X">>, <<>>, "")
UrlFtp == Url("ftp", <<"en", "wikipedia", "org">>, NoPort, <<"/", "wiki", "/", "X">>, <<>>, "")

UrlLookalike == Url("https", <<"evilwikipedia", "org">>, NoPort, <<"/", "wiki", "/", "X">>, <<>>, "")
UrlNoHost == Url("https", <<>>, NoPort, <<"/", "wiki", "/", "X">>, <<>>, "")

UrlSlashes == Url("https", <<"en", "wikipedia", "org">>, NoPort, <<"/", "wiki", "/", "X", "/", "/">>, <<>>, "")

RequestUrls == {UrlPlain, UrlMessy, UrlIndex, UrlOther, UrlForeign, UrlFtp, UrlLookalike, UrlNoHost}

\* The URLs get_or_create_summary is asked for: the second article is named with
\* two trailing slashes.
CreateUrls == (RequestUrls \ {UrlOther}) \cup {UrlSlashes}

\* What is wrong with the scheme or the host of a URL, as a request states it.
UrlDefect(url) ==
    IF url.scheme \notin {"http", "https"} THEN "scheme"
    ELSE IF ~IsWikipediaHost(LowerHost(url.host)) THEN "host"
    ELSE "none"

(***************************************************************************)
(* Text chunker, truncator and language heuristic                          *)
(* (app/services/summarizer.py)                                            *)
(***************************************************************************)
PORTUGUESE_STOPWORDS == {
    <<"a">>, <<"o">>, <<"o", "s">>, <<"a", "s">>,
    <<"u", "m">>, <<"u", "m", "a">>, <<"u", "n", "s">>, <<"u", "m", "a", "s">>,
    <<"d", "e">>, <<"d", "o">>, <<"d", "a">>, <<"d", "o", "s">>,
    <<"d", "a", "s">>, <<"e", "m">>, <<"n", "o">>, <<"n", "a">>,
    <<"n", "o", "s">>, <<"n", "a", "s">>, <<"p", "o", "r">>, <<"p", "a", "r", "a">>,
    <<"c", "o", "m">>, <<"e">>, <<"q", "u", "e">>, <<"c", "o", "m", "o">>,
    <<"o", "u">>, <<"n", "ã", "o">>, <<"m", "a", "i", "s">>, <<"m", "e", "n", "o", "s">>,
    <<"j", "á">>, <<"h", "á">>, <<"s", "e">>, <<"s", "u", "a">>,
    <<"s", "e", "u">>, <<"s", "u", "a", "s">>, <<"s", "e", "u", "s">>, <<"e", "n", "t", "r", "e">>,
    <<"a", "o">>, <<"à">>, <<"à", "s">>, <<"a", "o", "s">>,
    <<"s", "o", "b", "r", "e">>, <<"t", "a", "m", "b", "é", "m">>, <<"f", "o", "i">>, <<"e", "r", "a">>,
    <<"s", "e", "r">>, <<"s", "ã", "o">>, <<"e", "s", "t", "á">>, <<"e", "s", "t", "ã", "o">>,
    <<"t", "e", "m">>, <<"t", "ê", "m">>, <<"p", "e", "l", "o">>, <<"p", "e", "l", "a">>,
    <<"p", "e", "l", "o", "s">>, <<"p", "e", "l", "a", "s">>
}

PORTUGUESE_STRONG_STOPWORDS == {w \in PORTUGUESE_STOPWORDS : Len(w) >= 2}

\* The characters PORTUGUESE_WORD_RE matches, text being lowercased first.
PortugueseLetters == {
    "a", "b", "c", "d", "e", "f", "g", "h", "i", "j", "k", "l", "m", "n", "o", "p", "q", "r", "s", "t",
    "u", "v", "w", "x", "y", "z", "à", "á", "â", "ã", "ç", "é", "ê", "í", "ó", "ô", "õ", "ú"
}

\* PORTUGUESE_WORD_RE.findall(text): the maximal runs of letters.
RECURSIVE FindWordsFrom(_, _, _)
FindWordsFrom(t, i, cur) ==
    IF i > Len(t) THEN (IF cur = <<>> THEN <<>> ELSE <<cur>>)
    ELSE IF t[i] \notin PortugueseLetters
         THEN (IF cur = <<>> THEN <<>> ELSE <<cur>>) \o FindWordsFrom(t, i + 1, <<>>)
         ELSE FindWordsFrom(t, i + 1, Append(cur, t[i]))

RECURSIVE CountIn(_, _)
CountIn(ws, S) ==
    IF ws = <<>> THEN 0 ELSE (IF Head(ws) \in S THEN 1 ELSE 0) + CountIn(Tail(ws), S)

\* The heuristic without its ratio test.
looks_portuguese_by_hits(text) ==
    LET cleaned == _normalize_whitespace(text)
        words == FindWordsFrom(cleaned, 1, <<>>)
    IN  Len(cleaned) >= 40 /\ Len(words) >= 5
        /\ CountIn(words, PORTUGUESE_STRONG_STOPWORDS) >= 3

\* The texts of the model are lowercase, so str.lower() leaves them as they are.
_looks_like_portuguese(text) ==
    LET cleaned == _normalize_whitespace(text)
        words == FindWordsFrom(cleaned, 1, <<>>)
        stopword_hits == CountIn(words, PORTUGUESE_STRONG_STOPWORDS)
    IN  IF Len(cleaned) < 40 THEN FALSE
        ELSE IF Len(words) < 5 THEN FALSE
        \* stopword_hits / max(1, len(words)) >= 0.08
        ELSE stopword_hits >= 3 /\ stopword_hits * 100 >= 8 * Max(1, Len(words))

EndsWithTerminal(t) == t # <<>> /\ t[Len(t)] \in SentenceEnd

\* The truncation without its preference for a sentence boundary.
truncate_at_word_limit(text, max_words) ==
    LET words == Split(text)
        stripped == RStripSet(Strip(Join(Take(words, max_words), <<" ">>)), {" ", ",", ";", ":", "-"})
    IN  IF Len(words) <= max_words THEN Strip(text)
        ELSE IF EndsWithTerminal(stripped) THEN stripped
        ELSE stripped \o <<".">>

\* The truncation that cuts nothing.
truncate_strips_only(text, max_words) == Strip(text)

\* The truncation that ends every text it cut with a period of its own.
truncate_adding_period(text, max_words) ==
    LET words == Split(text)
    IN  IF Len(words) < max_words THEN Strip(text)
        ELSE RStripSet(Strip(Join(Take(words, max_words), <<" ">>)), {" ", ",", ";", ":", "-"})
             \o <<".">>

_truncate_to_word_limit(text, max_words) ==
    LET words == Split(text)
        truncated_text == Strip(Join(Take(words, max_words), <<" ">>))
        sentences == SentenceSplit(truncated_text)
        candidate == Strip(Join(SubSeq(sentences, 1, Len(sentences) - 1), <<" ">>))
        \* int(max_words * 0.6)
        chosen == IF /\ Len(sentences) > 1
                     /\ candidate # <<>>
                     /\ WordCount(candidate) >= Max(1, (max_words * 6) \div 10)
                  THEN candidate ELSE truncated_text
        stripped == RStripSet(chosen, {" ", ",", ";", ":", "-"})
    IN  IF Len(words) <= max_words THEN Strip(text)
        ELSE IF EndsWithTerminal(stripped) THEN stripped
        ELSE stripped \o <<".">>

\* The chunks cut one word too long.
RECURSIVE chunks_one_word_longer(_, _)
chunks_one_word_longer(words, max_words) ==
    IF words = <<>> THEN <<>>
    ELSE <<Join(Take(words, max_words + 1), <<" ">>)>>
         \o chunks_one_word_longer(SubSeq(words, max_words + 2, Len(words)), max_words)

RECURSIVE ChunksFrom(_, _)
ChunksFrom(words, max_words) ==
    IF words = <<>> THEN <<>>
    ELSE <<Join(Take(words, max_words), <<" ">>)>>
         \o ChunksFrom(SubSeq(words, max_words + 1, Len(words)), max_words)

_split_text_into_chunks(text, max_words) == ChunksFrom(Split(text), max_words)

MAP_REDUCE_THRESHOLD_WORDS == 1200
MAP_CHUNK_WORDS == 800
MAP_MIN_SUMMARY_WORDS == 60
MAP_MAX_SUMMARY_WORDS == 200

\* The chunk target left as computed, without its floor and ceiling.
chunk_target_unclamped(final_word_count, chunk_count) ==
    IF chunk_count <= 0 THEN final_word_count
    ELSE (final_word_count * 3) \div (2 * chunk_count)

\* int(final_word_count * 1.5 / chunk_count), clamped
_map_chunk_word_target(final_word_count, chunk_count) ==
    IF chunk_count <= 0 THEN final_word_count
    ELSE Min(MAP_MAX_SUMMARY_WORDS,
             Max(MAP_MIN_SUMMARY_WORDS, (final_word_count * 3) \div (2 * chunk_count)))

\* The extractive summary without the cut at five sentences.
fallback_all_sentences(text, word_count) ==
    LET cleaned == _normalize_whitespace(text)
    IN  IF cleaned = <<>> THEN [exc |-> "SummarizationError", text |-> None]
        ELSE [exc |-> NoExc, text |-> Some(_truncate_to_word_limit(cleaned, word_count))]

\* [exc, text]: the extractive summary, or the SummarizationError raised.
_fallback_summary(text, word_count) ==
    LET cleaned == _normalize_whitespace(text)
        sentences == SentenceSplit(cleaned)
        candidate == Join(Take(sentences, 5), <<" ">>)
    IN  IF cleaned = <<>> THEN [exc |-> "SummarizationError", text |-> None]
        ELSE [exc |-> NoExc, text |-> Some(_truncate_to_word_limit(candidate, word_count))]

(***************************************************************************)
(* Process-wide state                                                      *)
(***************************************************************************)
VARIABLES
    settings,   \* get_settings(): the Settings object, loaded once
    doubles,    \* None, or the test doubles monkeypatched over the collaborators
    store,      \* the rows of table summaries
    next_id,    \* the next value of the autoincrement key
    clock,      \* the store's clock (func.now())
    calls,      \* the requests: each call's position and local variables
    probe       \* the last direct call of a function of the services: [fn, arg, out]

vars == <<settings, doubles, store, next_id, clock, calls, probe>>

\* No function of the services has been called directly.
NoProbe == [fn |-> "none", arg |-> <<>>, out |-> <<>>]

Calls == 1..NumCalls

MinArticleWords == 2
MaxRedirects == 1
MaxContentBytes == 2

PLACEHOLDER_API_KEYS == {<<"your-openai-api-key">>}

\* The fields class Settings declares that the core reads.  It declares neither
\* llm_max_retries nor llm_retry_backoff_seconds.
MakeSettings(key, fallback, translate, database_url) ==
    [openai_api_key |-> key,
     openai_model |-> <<"gpt-a">>,
     openai_fallback_model |-> fallback,
     enable_portuguese_translation |-> translate,
     database_url |-> database_url,
     llm_timeout_seconds |-> 30,
     http_timeout_seconds |-> 10,
     wikipedia_min_article_words |-> MinArticleWords,
     wikipedia_max_content_bytes |-> MaxContentBytes,
     wikipedia_max_redirects |-> MaxRedirects]

SettingsChoices == {
    MakeSettings(<<"sk-live">>, <<"gpt-b">>, TRUE, "postgresql"),
    MakeSettings(<<"your-openai-api-key">>, <<>>, TRUE, "postgresql"),
    MakeSettings(<<" ">>, <<"gpt-a">>, FALSE, "sqlite")
}

\* The environment of tests/_bootstrap.py.
TestSettings == MakeSettings(<<"test-openai-key">>, <<>>, TRUE, "sqlite")

\* settings.<name> on a pydantic model: AttributeError for an undeclared field.
HasAttr(obj, name) == name \in DOMAIN obj

_llm_available ==
    LET key == Strip(settings.openai_api_key)
    IN  key # <<>> /\ key \notin PLACEHOLDER_API_KEYS

_get_fallback_model ==
    LET fallback == Strip(settings.openai_fallback_model)
    IN  IF fallback = <<>> THEN None
        ELSE IF fallback = settings.openai_model THEN None
        ELSE Some(fallback)

SUMMARY_ORIGIN_LLM == "llm"
SUMMARY_ORIGIN_LLM_FALLBACK == "llm_fallback"
SUMMARY_ORIGIN_FALLBACK == "fallback"
TRANSLATION_ORIGIN_LLM == "llm"
TRANSLATION_ORIGIN_LLM_FALLBACK == "llm_fallback"
TRANSLATION_ORIGIN_SKIPPED == "skipped"
TRANSLATION_ORIGIN_DISABLED == "disabled"
TRANSLATION_ORIGIN_UNAVAILABLE == "unavailable"
TRANSLATION_ORIGIN_ERROR == "error"

(***************************************************************************)
(* Generation engine (app/services/summarizer.py)                          *)
(*                                                                         *)
(* The model backend is the environment: an oracle fixes, for every        *)
(* invocation <<call, model, attempt>>, whether llm.invoke raises, and the *)
(* content it returns otherwise.  A content is [raw, parsed]: the string   *)
(* and what json.loads makes of it (None, or Some(the decoded object)).    *)
(***************************************************************************)
Content(raw, parsed) == [raw |-> raw, parsed |-> parsed]

ReplyJson == Content(<<"{", "}">>, Some([summary |-> <<"a", " ", "b", ".">>, translation |-> <<"d", " ", "e", ".">>]))
ReplyRaw == Content(<<"b", " ", " ", "a">>, None)
ReplyEmpty == Content(<<" ">>, None)

LlmOracles == {
    [raises |-> {}, reply |-> ReplyJson],
    [raises |-> {}, reply |-> ReplyRaw],
    [raises |-> {}, reply |-> ReplyEmpty],
    [raises |-> {<<1, <<"gpt-a">>, 1>>}, reply |-> ReplyJson],
    [raises |-> {<<1, <<"gpt-a">>, 1>>, <<1, <<"gpt-a">>, 2>>}, reply |-> ReplyJson]
}

\* A JSON object without the fields asked for, and one whose fields are blank.
ReplyNoField == Content(<<"{", "o", " ", " ", "x", "}">>, Some([other |-> <<"x">>]))
ReplyBlankField == Content(<<"{", " ", "}">>, Some([summary |-> <<" ">>, translation |-> <<>>]))

\* A reply of ninety words, not JSON.
ReplyLong == Content([i \in 1..179 |-> IF i % 2 = 1 THEN "a" ELSE " "], None)

\* _invoke_with_fallback replaced by a double, as tests/test_summarizer.py does:
\* the double returns the reply and the origin it was made with.
Patched(oracle) == "patched" \in DOMAIN oracle
PatchedOracles ==
    {[raises |-> {}, reply |-> reply, patched |-> origin] :
        reply \in {ReplyJson, ReplyRaw, ReplyNoField, ReplyBlankField, ReplyLong},
        origin \in {"primary", "fallback"}}

\* The double that raises SummarizationError, as raise_error of
\* tests/test_summarizer.py does, at one generation call of a run, or at each.
MaxGenerationCalls == 3
RaisingOracles ==
    {[raises |-> {n}, reply |-> ReplyJson, patched |-> "primary"] : n \in 1..MaxGenerationCalls}
    \cup {[raises |-> 1..MaxGenerationCalls, reply |-> ReplyJson, patched |-> "primary"]}

\* _content_to_text(response.content) for a string content
_content_to_text(content) == Content(_normalize_whitespace(content.raw), content.parsed)

\* [exc, text, invocations]: the text of the first attempt that succeeds, or the
\* exception raised; invocations lists the llm.invoke calls made, in order.
_invoke_llm(model, call, oracle) ==
    IF ~HasAttr(settings, "llm_max_retries")
    THEN [exc |-> "AttributeError", text |-> None, invocations |-> <<>>]
    ELSE
    LET model_name == IF model = None THEN settings.openai_model ELSE Val(model)
        max_retries == Max(0, settings.llm_max_retries)
        max_attempts == Max(1, max_retries + 1)
        RECURSIVE Attempt(_, _)
        Attempt(attempt, log) ==
            LET raised == <<call, model_name, attempt>> \in oracle.raises
                text == _content_to_text(oracle.reply)
                failed == raised \/ text.raw = <<>>
                log2 == Append(log, [model |-> model_name, attempt |-> attempt, failed |-> failed])
            IN  IF ~failed THEN [exc |-> NoExc, text |-> Some(text), invocations |-> log2]
                ELSE IF attempt >= max_attempts
                THEN [exc |-> "SummarizationError", text |-> None, invocations |-> log2]
                ELSE Attempt(attempt + 1, log2)
    IN  Attempt(1, <<>>)

\* [exc, text, origin, invocations]
_invoke_with_fallback(primary_origin, fallback_origin, call, oracle) ==
    LET fallback_model == _get_fallback_model
        \* the except branch once the fallback model has answered or failed
        WithFallback(first, second) ==
            [exc |-> second.exc, text |-> second.text,
             origin |-> IF second.exc = NoExc THEN fallback_origin ELSE NoOrigin,
             invocations |-> first.invocations \o second.invocations]
        WithPrimary(first) ==
            IF first.exc = NoExc
            THEN [exc |-> NoExc, text |-> first.text, origin |-> primary_origin,
                  invocations |-> first.invocations]
            ELSE IF first.exc # "SummarizationError" \/ fallback_model = None
            THEN [exc |-> first.exc, text |-> None, origin |-> NoOrigin,
                  invocations |-> first.invocations]
            ELSE WithFallback(first, _invoke_llm(fallback_model, call, oracle))
    IN  IF Patched(oracle) /\ call \in oracle.raises
        THEN [exc |-> "SummarizationError", text |-> None, origin |-> NoOrigin,
              invocations |-> <<>>]
        ELSE IF Patched(oracle)
        THEN [exc |-> NoExc, text |-> Some(oracle.reply),
              origin |-> IF oracle.patched = "primary" THEN primary_origin ELSE fallback_origin,
              invocations |-> <<>>]
        ELSE WithPrimary(_invoke_llm(Some(settings.openai_model), call, oracle))

_extract_json_field(text, field) ==
    IF text.parsed = None THEN None
    ELSE IF field \notin DOMAIN Val(text.parsed) THEN None
    ELSE IF Strip(Val(text.parsed)[field]) = <<>> THEN None
    ELSE Some(_normalize_whitespace(Val(text.parsed)[field]))

\* The extraction without its resort to the raw text.
extract_field_or_nothing(raw_text, field) ==
    LET Extracted(value) == IF value # None THEN Val(value) ELSE <<>>
    IN  Extracted(_extract_json_field(raw_text, field))

_extract_structured_text(raw_text, field) ==
    LET Extracted(value) == IF value # None THEN Val(value) ELSE _normalize_whitespace(raw_text.raw)
    IN  Extracted(_extract_json_field(raw_text, field))

\* The record kept of one generation call: its outcome and its invocations, in order.
Gen(purpose, r) ==
    [purpose |-> purpose, exc |-> r.exc, origin |-> r.origin, invocations |-> r.invocations]

\* [exc, text, origin, gens]; gens lists the generation calls made, in order.
_summarize_single_pass(text, word_count, call, oracle) ==
    LET Answer(r) ==
            IF r.exc # NoExc
            THEN [exc |-> r.exc, text |-> None, origin |-> NoOrigin,
                  gens |-> <<Gen("summary", r)>>]
            ELSE [exc |-> NoExc,
                  text |-> Some(_truncate_to_word_limit(
                               _extract_structured_text(Val(r.text), "summary"), word_count)),
                  origin |-> r.origin, gens |-> <<Gen("summary", r)>>]
    IN  Answer(_invoke_with_fallback(SUMMARY_ORIGIN_LLM, SUMMARY_ORIGIN_LLM_FALLBACK,
                                     call, oracle))

\* Map-reduce given up: a long text is summarized in one pass like a short one.
map_reduce_as_single_pass(text, word_count, oracle) ==
    _summarize_single_pass(_normalize_whitespace(text), word_count, 1, oracle)

_summarize_map_reduce(text, word_count, oracle) ==
    LET cleaned == _normalize_whitespace(text)
        chunks == _split_text_into_chunks(cleaned, MAP_CHUNK_WORDS)
        chunk_target == _map_chunk_word_target(word_count, Len(chunks))
        \* the map loop from chunk idx on: [exc, partials, gens]
        RECURSIVE Map(_, _, _)
        \* a map call that answered is recorded with its target and its partial summary
        Partial(r) ==
            _truncate_to_word_limit(_extract_structured_text(Val(r.text), "summary"), chunk_target)
        \* what _build_summary_messages is given for the map call of chunk idx
        MapCall(idx, r) ==
            Gen("summary-map", r)
            @@ [chunk |-> chunks[idx], chunk_index |-> idx, total_chunks |-> Len(chunks),
                target |-> chunk_target]
        MapStep(idx, partials, gens, r) ==
            IF r.exc # NoExc
            THEN [exc |-> r.exc, partials |-> partials, gens |-> Append(gens, MapCall(idx, r))]
            ELSE Map(idx + 1,
                     Append(partials, Partial(r)),
                     Append(gens, MapCall(idx, r) @@ [partial |-> Partial(r)]))
        Map(idx, partials, gens) ==
            IF idx > Len(chunks) THEN [exc |-> NoExc, partials |-> partials, gens |-> gens]
            ELSE MapStep(idx, partials, gens,
                         _invoke_with_fallback(SUMMARY_ORIGIN_LLM, SUMMARY_ORIGIN_LLM_FALLBACK,
                                               idx, oracle))
        \* any fallback use, in a map step or in the reduce step, marks the result
        FinalOrigin(gens) ==
            IF \E i \in 1..Len(gens) : gens[i].origin = SUMMARY_ORIGIN_LLM_FALLBACK
            THEN SUMMARY_ORIGIN_LLM_FALLBACK ELSE SUMMARY_ORIGIN_LLM
        \* what _build_summary_messages is given for the reduce call
        ReduceCall(mapped, red) ==
            Gen("summary-reduce", red)
            @@ [summaries |-> Join(mapped.partials, <<"\n", "\n">>), target |-> word_count]
        Reduce(mapped, red) ==
            IF red.exc # NoExc
            THEN [exc |-> red.exc, text |-> None, origin |-> NoOrigin,
                  gens |-> Append(mapped.gens, ReduceCall(mapped, red))]
            ELSE [exc |-> NoExc,
                  text |-> Some(_truncate_to_word_limit(
                               _extract_structured_text(Val(red.text), "summary"), word_count)),
                  origin |-> FinalOrigin(Append(mapped.gens, ReduceCall(mapped, red))),
                  gens |-> Append(mapped.gens, ReduceCall(mapped, red))]
        Mapped(mapped) ==
            IF mapped.exc # NoExc
            THEN [exc |-> mapped.exc, text |-> None, origin |-> NoOrigin, gens |-> mapped.gens]
            ELSE Reduce(mapped,
                        _invoke_with_fallback(SUMMARY_ORIGIN_LLM, SUMMARY_ORIGIN_LLM_FALLBACK,
                                              Len(chunks) + 1, oracle))
    IN  IF Len(chunks) <= 1 THEN _summarize_single_pass(cleaned, word_count, 1, oracle)
        ELSE Mapped(Map(1, <<>>, <<>>))

\* summarize_text without its except branch: a failed generation is passed on.
summarize_without_rescue(text, word_count, oracle) ==
    LET Generate(cleaned) ==
            IF WordCount(cleaned) >= MAP_REDUCE_THRESHOLD_WORDS
            THEN _summarize_map_reduce(cleaned, word_count, oracle)
            ELSE _summarize_single_pass(cleaned, word_count, 1, oracle)
    IN  Generate(_normalize_whitespace(text))

summarize_text(text, word_count, oracle) ==
    LET Fallback(fb, gens) ==
            [exc |-> fb.exc, text |-> fb.text,
             origin |-> IF fb.exc = NoExc THEN SUMMARY_ORIGIN_FALLBACK ELSE NoOrigin,
             gens |-> gens]
        Answer(r) ==
            IF r.exc = "SummarizationError"
            THEN Fallback(_fallback_summary(text, word_count), r.gens)
            ELSE IF r.exc # NoExc
            THEN r
            ELSE [exc |-> NoExc, text |-> Some(_truncate_to_word_limit(Val(r.text), word_count)),
                  origin |-> r.origin, gens |-> r.gens]
        Generate(cleaned) ==
            IF WordCount(cleaned) >= MAP_REDUCE_THRESHOLD_WORDS
            THEN _summarize_map_reduce(cleaned, word_count, oracle)
            ELSE _summarize_single_pass(cleaned, word_count, 1, oracle)
    IN  IF ~_llm_available
        THEN Fallback(_fallback_summary(text, word_count), <<>>)
        ELSE Answer(Generate(_normalize_whitespace(text)))

\* [exc, text, origin, gens]
translate_summary_to_portuguese(summary_en, word_count, oracle) ==
    LET Answer(r) ==
            IF r.exc # NoExc
            THEN [exc |-> r.exc, text |-> None, origin |-> NoOrigin,
                  gens |-> <<Gen("translation", r)>>]
            ELSE [exc |-> NoExc,
                  text |-> Some(_truncate_to_word_limit(
                               _extract_structured_text(Val(r.text), "translation"), word_count)),
                  origin |-> r.origin, gens |-> <<Gen("translation", r)>>]
    IN  IF ~settings.enable_portuguese_translation
        THEN [exc |-> NoExc, text |-> None, origin |-> TRANSLATION_ORIGIN_DISABLED, gens |-> <<>>]
        ELSE IF _looks_like_portuguese(summary_en)
        THEN [exc |-> NoExc, text |-> Some(summary_en), origin |-> TRANSLATION_ORIGIN_SKIPPED,
              gens |-> <<>>]
        ELSE IF ~_llm_available
        THEN [exc |-> NoExc, text |-> None, origin |-> TRANSLATION_ORIGIN_UNAVAILABLE,
              gens |-> <<>>]
        ELSE Answer(_invoke_with_fallback(TRANSLATION_ORIGIN_LLM,
                                          TRANSLATION_ORIGIN_LLM_FALLBACK, 1, oracle))

(***************************************************************************)
(* Article fetcher (app/services/wikipedia.py)                             *)
(*                                                                         *)
(* The web is the environment: a script lists the responses served to the  *)
(* successive requests of one fetch.  A page is [chunks, container,        *)
(* paragraphs]: the sizes of the chunks its body is streamed in, whether   *)
(* the HTML holds the content container, and the text of its paragraphs    *)
(* once the removal selectors are applied.                                 *)
(***************************************************************************)
Digits == {"0", "1"}

\* REFERENCE_PATTERN.sub("", text): drop every "[" digits "]"
RECURSIVE RemoveRefsFrom(_, _)
RemoveRefsFrom(t, i) ==
    LET RECURSIVE SkipDigits(_)
        SkipDigits(j) == IF j <= Len(t) /\ t[j] \in Digits THEN SkipDigits(j + 1) ELSE j
        close == SkipDigits(i + 1)
    IN  IF i > Len(t) THEN <<>>
        ELSE IF t[i] = "[" /\ close > i + 1 /\ close <= Len(t) /\ t[close] = "]"
        THEN RemoveRefsFrom(t, close + 1)
        ELSE <<t[i]>> \o RemoveRefsFrom(t, i + 1)

_clean_text(text) == Strip(Collapse(RemoveRefsFrom(text, 1)))

Redirect(location) == [kind |-> "redirect", location |-> location, page |-> None]
Ok(chunks, container, paragraphs) ==
    [kind |-> "ok", location |-> None,
     page |-> Some([chunks |-> chunks, container |-> container, paragraphs |-> paragraphs])]
HttpError == [kind |-> "error", location |-> None, page |-> None]

\* The limit taken one byte too low: a body of exactly max_bytes is refused.
read_rejects_at_ceiling(chunks, max_bytes) ==
    LET RECURSIVE Read(_, _)
        Read(i, content) ==
            IF i > Len(chunks) THEN [exc |-> NoExc, content |-> Some(content)]
            ELSE IF content + chunks[i] >= max_bytes
            THEN [exc |-> "ScrapingError", content |-> None]
            ELSE Read(i + 1, content + chunks[i])
    IN  IF max_bytes <= 0 THEN [exc |-> "ScrapingError", content |-> None]
        ELSE Read(1, 0)

\* [exc, content]: the number of bytes read, or the ScrapingError raised once the
\* bytes accumulated pass max_bytes.
_read_response_limited(chunks, max_bytes) ==
    LET RECURSIVE Read(_, _)
        Read(i, content) ==
            IF i > Len(chunks) THEN [exc |-> NoExc, content |-> Some(content)]
            ELSE IF content + chunks[i] > max_bytes
            THEN [exc |-> "ScrapingError", content |-> None]
            ELSE Read(i + 1, content + chunks[i])
    IN  IF max_bytes <= 0 THEN [exc |-> "ScrapingError", content |-> None]
        ELSE Read(1, 0)

\* urljoin(base, ref) for the references the model uses: an absolute URL, a
\* //host/path reference (no scheme) and a /path reference (no scheme, no host).
urljoin(base, ref) ==
    IF ref.scheme # "" THEN ref
    ELSE IF ref.host # <<>> THEN [ref EXCEPT !.scheme = base.scheme]
    ELSE [ref EXCEPT !.scheme = base.scheme, !.host = base.host, !.port = base.port]

\* The Location header followed as it is.
redirect_unchecked(current_url, location) ==
    [exc |-> NoExc, url |-> Some(urljoin(current_url, location))]

\* [exc, url]: the URL a redirect leads to, or the URLValidationError raised.
RedirectTarget(current_url, location) ==
    normalize_wikipedia_url(urljoin(current_url, location))

\* The loop running once more than configured.
one_request_more(max_redirects) == max_redirects + 2

\* len(range(max_redirects + 1)): the requests one fetch may make.
MaxRequests(max_redirects) == max_redirects + 1

\* [exc, page, requests]; requests lists the URLs requested, in order.
_fetch_wikipedia_html(url, web) ==
    LET max_redirects == settings.wikipedia_max_redirects
        max_bytes == settings.wikipedia_max_content_bytes
        Fail(exc, requests) == [exc |-> exc, page |-> None, requests |-> requests]
        RECURSIVE Hop(_, _, _)
        Hop(i, current_url, requests) ==
            LET response == IF i <= Len(web) THEN web[i] ELSE HttpError
                sent == Append(requests, current_url)
                next == RedirectTarget(current_url, Val(response.location))
            IN  IF i > MaxRequests(max_redirects) THEN Fail("ScrapingError", requests)
                ELSE IF response.kind = "error" THEN Fail("ScrapingError", sent)
                ELSE IF response.kind = "redirect"
                THEN IF response.location = None THEN Fail("ScrapingError", sent)
                     ELSE IF next.exc # NoExc THEN Fail("URLValidationError", sent)
                     ELSE Hop(i + 1, Val(next.url), sent)
                ELSE IF _read_response_limited(Val(response.page).chunks, max_bytes).exc # NoExc
                THEN Fail("ScrapingError", sent)
                ELSE [exc |-> NoExc, page |-> response.page, requests |-> sent]
    IN  IF max_redirects < 0 THEN Fail("ScrapingError", <<>>)
        ELSE Hop(1, url, <<>>)

\* The extraction without its minimum: any text found is returned.
article_text_of_any_length(url, web) ==
    LET Fetched(html) ==
            IF html.exc # NoExc
            THEN [exc |-> html.exc, text |-> None, requests |-> html.requests]
            ELSE IF ~Val(html.page).container
            THEN [exc |-> "ScrapingError", text |-> None, requests |-> html.requests]
            ELSE [exc |-> NoExc, text |-> Some(_clean_text(Val(html.page).paragraphs)),
                  requests |-> html.requests]
        Normalized(normalized) ==
            IF normalized.exc # NoExc
            THEN [exc |-> normalized.exc, text |-> None, requests |-> <<>>]
            ELSE Fetched(_fetch_wikipedia_html(Val(normalized.url), web))
    IN  Normalized(normalize_wikipedia_url(url))

\* [exc, text, requests]
get_wikipedia_article_text(url, web) ==
    LET Extracted(html, article_text) ==
            IF WordCount(article_text) < settings.wikipedia_min_article_words
            THEN [exc |-> "ScrapingError", text |-> None, requests |-> html.requests]
            ELSE [exc |-> NoExc, text |-> Some(article_text), requests |-> html.requests]
        Fetched(html) ==
            IF html.exc # NoExc
            THEN [exc |-> html.exc, text |-> None, requests |-> html.requests]
            ELSE IF ~Val(html.page).container
            THEN [exc |-> "ScrapingError", text |-> None, requests |-> html.requests]
            ELSE Extracted(html, _clean_text(Val(html.page).paragraphs))
        Normalized(normalized) ==
            IF normalized.exc # NoExc
            THEN [exc |-> normalized.exc, text |-> None, requests |-> <<>>]
            ELSE Fetched(_fetch_wikipedia_html(Val(normalized.url), web))
    IN  Normalized(normalize_wikipedia_url(url))

ParagraphsEn == <<"a", " ", "b", ".", "[", "1", "]", "\n", "a">>
ParagraphsStub == <<"a", ".">>

\* Every request of the fetch is answered by a redirect to another article.
RedirectLoop ==
    [i \in 1..(MaxRedirects + 1) |-> Redirect(Some(IF i % 2 = 1 THEN UrlOther ELSE UrlPlain))]

WebScripts == {
    <<Ok(<<1, MaxContentBytes - 1>>, TRUE, ParagraphsEn)>>,
    <<Ok(<<1>>, TRUE, ParagraphsStub)>>,
    <<Ok(<<1>>, FALSE, ParagraphsEn)>>,
    <<Ok(<<MaxContentBytes, 1>>, TRUE, ParagraphsEn)>>,
    <<HttpError>>,
    <<Redirect(None)>>,
    <<Redirect(Some(UrlForeign))>>,
    <<Redirect(Some(UrlMessy)), Ok(<<1>>, TRUE, ParagraphsEn)>>,
    RedirectLoop
}

(***************************************************************************)
(* Summary store (app/db/models.py, app/repositories/summaries.py)         *)
(***************************************************************************)
Summary(id, url, word_count, summary, summary_origin, summary_pt, summary_pt_origin, created_at) ==
    [id |-> id, url |-> url, word_count |-> word_count,
     summary |-> summary, summary_origin |-> summary_origin,
     summary_pt |-> summary_pt, summary_pt_origin |-> summary_pt_origin,
     created_at |-> created_at, updated_at |-> None]

\* The table without its unique constraint: no insert is ever refused.
no_unique_constraint(rows, url, word_count) == FALSE

\* UniqueConstraint("url", "word_count"): whether a row with this key is stored.
uq_summaries_url_word_count(rows, url, word_count) ==
    \E r \in rows : r.url = url /\ r.word_count = word_count

RowWithLeastId(rows) == CHOOSE r \in rows : \A q \in rows : r.id <= q.id
RowWithGreatestId(rows) == CHOOSE r \in rows : \A q \in rows : r.id >= q.id

\* Lookups gone wrong: one that filters on the URL alone, one that finds nothing.
get_by_url_only(url, word_count) ==
    LET rows == {r \in store : r.url = url}
    IN  IF rows = {} THEN None ELSE Some(RowWithLeastId(rows))

get_nothing(url, word_count) == None

\* select(Summary).where(url == url, word_count == word_count); scalar(): first row
get_by_url_and_word_count(url, word_count) ==
    LET rows == {r \in store : r.url = url /\ r.word_count = word_count}
    IN  IF rows = {} THEN None ELSE Some(RowWithLeastId(rows))

\* A latest-by-URL lookup without its where clause.
get_latest_of_any_url(url) ==
    IF store = {} THEN None ELSE Some(RowWithGreatestId(store))

\* select(Summary).where(url == url).order_by(desc(id)).limit(1)
get_latest_by_url(url) ==
    LET rows == {r \in store : r.url = url}
    IN  IF rows = {} THEN None ELSE Some(RowWithGreatestId(rows))

(***************************************************************************)
(* Calls.  A call is one request with a session of its own; its steps are  *)
(* cut where it reads or writes the store or waits for the outside world.  *)
(***************************************************************************)
WordCounts == {1, 20}

Idle ==
    [pc |-> "idle", op |-> "none", normalized_url |-> None, word_count |-> None,
     article_text |-> None, summary_text |-> None, origin |-> NoOrigin,
     summary_pt |-> None, pt_origin |-> NoOrigin,
     result |-> None, source |-> "none", created_new |-> FALSE, exc |-> NoExc,
     began |-> 0, fetch_exc |-> NoExc, translation_exc |-> NoExc,
     fetches |-> 0, summarizations |-> 0, translations |-> 0, writes |-> 0,
     gens |-> <<>>, bad_url |-> FALSE, lookups |-> 0, first_request |-> None]

\* Calls are interchangeable: they are numbered in the order they begin.
MayBegin(c) ==
    /\ calls[c].pc = "idle"
    /\ IF c = 1 THEN TRUE ELSE calls[c - 1].pc # "idle"

\* The locals of a call end with it.
Locals(call) ==
    [call EXCEPT !.article_text = None, !.summary_text = None, !.origin = NoOrigin,
                 !.summary_pt = None, !.pt_origin = NoOrigin, !.began = 0]
Raise(call, exc) == [Locals(call) EXCEPT !.pc = "done", !.exc = exc]
Return(call, result, source) ==
    [Locals(call) EXCEPT !.pc = "done", !.result = result, !.source = source]

Init ==
    /\ \/ doubles = None /\ settings \in SettingsChoices
       \/ /\ doubles \in {Some([scrape |-> "text", translate |-> "text"]),
                          Some([scrape |-> "text", translate |-> "SummarizationError"]),
                          Some([scrape |-> "ScrapingError", translate |-> "text"])}
          /\ settings = TestSettings
    /\ store = {}
    /\ next_id = 1
    /\ clock = 1
    /\ calls = [c \in Calls |-> Idle]
    /\ probe = NoProbe

\* SummaryOrchestrator._normalize_url
_normalize_url(url) ==
    LET n == normalize_wikipedia_url(url)
    IN  IF n.exc = "URLValidationError" THEN [exc |-> "InvalidInputError", url |-> None] ELSE n

\* get_or_create_summary, up to the cache check.
BeginGetOrCreate(c) ==
    /\ MayBegin(c)
    /\ \E url \in CreateUrls, word_count \in WordCounts :
        LET n == _normalize_url(url)
            existing == get_by_url_and_word_count(Val(n.url), word_count)
            call == [calls[c] EXCEPT !.op = "get_or_create", !.bad_url = UrlDefect(url) # "none",
                                     !.normalized_url = n.url, !.word_count = Some(word_count),
                                     !.began = clock]
            looked == [call EXCEPT !.lookups = @ + 1]
        IN  calls' = [calls EXCEPT ![c] =
                         IF n.exc # NoExc THEN Raise(call, n.exc)
                         ELSE IF existing # None THEN Return(looked, existing, "cache")
                         ELSE [looked EXCEPT !.pc = "scrape"]]
    /\ clock' = clock + 1
    /\ UNCHANGED <<probe, settings, doubles, store, next_id>>

\* The doubles of tests/test_summaries.py: get_wikipedia_article_text, summarize_text
\* and translate_summary_to_portuguese replaced by mocks.
TEST_TEXT == <<"a", " ", "b", ".", " ", "a", " ", "b", ".">>
TEST_SUMMARY == <<"a", " ", "b", ".">>
TEST_SUMMARY_PT == <<"d", " ", "e", ".">>

mock_scrape ==
    IF Val(doubles).scrape = "text"
    THEN [exc |-> NoExc, text |-> Some(TEST_TEXT), requests |-> <<>>]
    ELSE [exc |-> "ScrapingError", text |-> None, requests |-> <<>>]

mock_summarize ==
    [exc |-> NoExc, text |-> Some(TEST_SUMMARY), origin |-> SUMMARY_ORIGIN_LLM, gens |-> <<>>]

mock_translate ==
    IF Val(doubles).translate = "text"
    THEN [exc |-> NoExc, text |-> Some(TEST_SUMMARY_PT), origin |-> TRANSLATION_ORIGIN_LLM,
          gens |-> <<>>]
    ELSE [exc |-> "SummarizationError", text |-> None, origin |-> NoOrigin, gens |-> <<>>]

\* The URL of the first HTTP request a fetch sent, if it sent any.
FirstRequest(r) == IF r.requests = <<>> THEN None ELSE Some(r.requests[1])

\* The try statement with a single except clause: every failure of the fetch is
\* reported as an upstream failure.
AfterScrapeOneClause(call, r) ==
    LET fetched == [call EXCEPT !.fetches = @ + 1, !.fetch_exc = r.exc,
                                !.first_request = FirstRequest(r)]
    IN  IF r.exc # NoExc THEN Raise(fetched, "UpstreamServiceError")
        ELSE [fetched EXCEPT !.pc = "summarize", !.article_text = r.text]

\* The try statement around get_wikipedia_article_text, given what the call did (r).
\* fetches, fetch_exc and first_request record the invocation, the exception it
\* raised and the first URL it requested.
AfterScrape(call, r) ==
    LET fetched == [call EXCEPT !.fetches = @ + 1, !.fetch_exc = r.exc,
                                !.first_request = FirstRequest(r)]
    IN  IF r.exc = "URLValidationError" THEN Raise(fetched, "InvalidInputError")
        ELSE IF r.exc = "ScrapingError" THEN Raise(fetched, "UpstreamServiceError")
        ELSE [fetched EXCEPT !.pc = "summarize", !.article_text = r.text]

\* get_or_create_summary, step 2: scrape Wikipedia.
Scrape(c) ==
    /\ calls[c].pc = "scrape"
    /\ \E web \in WebScripts :
        \E r \in {IF doubles = None
                  THEN get_wikipedia_article_text(Val(calls[c].normalized_url), web)
                  ELSE mock_scrape} :
            calls' = [calls EXCEPT ![c] = AfterScrape(@, r)]
    /\ UNCHANGED <<probe, settings, doubles, store, next_id, clock>>

\* The try statement around summarize_text; an exception that is no SummarizationError
\* passes through it.
AfterSummarize(call, r) ==
    LET logged == [call EXCEPT !.summarizations = @ + 1, !.gens = @ \o r.gens]
    IN  IF r.exc = "SummarizationError" THEN Raise(logged, "UpstreamServiceError")
        ELSE IF r.exc # NoExc THEN Raise(logged, r.exc)
        ELSE [logged EXCEPT !.pc = "translate", !.summary_text = r.text,
                            !.origin = r.origin, !.article_text = None]

\* get_or_create_summary, step 3: summarize.
Summarize(c) ==
    /\ calls[c].pc = "summarize"
    /\ \E oracle \in LlmOracles :
        \E r \in {IF doubles = None
                  THEN summarize_text(Val(calls[c].article_text), Val(calls[c].word_count),
                                      oracle)
                  ELSE mock_summarize} :
            calls' = [calls EXCEPT ![c] = AfterSummarize(@, r)]
    /\ UNCHANGED <<probe, settings, doubles, store, next_id, clock>>

\* Translation handled like summarization: its failure ends the call.
TranslationFailedRaises(logged) == Raise(logged, "UpstreamServiceError")

\* A failed translation that leaves the English summary in place of the translation.
translation_failed_keeps_summary(logged) ==
    [logged EXCEPT !.pc = "save", !.summary_pt = logged.summary_text,
                   !.pt_origin = TRANSLATION_ORIGIN_ERROR]

\* A translation that raised SummarizationError, as the orchestrator treats it.
TranslationFailed(logged) ==
    [logged EXCEPT !.pc = "save", !.summary_pt = None, !.pt_origin = TRANSLATION_ORIGIN_ERROR]

\* The try statement around translate_summary_to_portuguese; translation_exc records
\* the exception the call raised.
AfterTranslate(call, r) ==
    LET logged == [call EXCEPT !.translations = @ + 1, !.gens = @ \o r.gens,
                               !.translation_exc = r.exc]
    IN  IF r.exc = "SummarizationError" THEN TranslationFailed(logged)
        ELSE IF r.exc # NoExc THEN Raise(logged, r.exc)
        ELSE [logged EXCEPT !.pc = "save", !.summary_pt = r.text, !.pt_origin = r.origin]

\* get_or_create_summary, step 4: translate (best-effort).
Translate(c) ==
    /\ calls[c].pc = "translate"
    /\ \E oracle \in LlmOracles :
        \E r \in {IF doubles = None
                  THEN translate_summary_to_portuguese(Val(calls[c].summary_text),
                                                       Val(calls[c].word_count), oracle)
                  ELSE mock_translate} :
            calls' = [calls EXCEPT ![c] = AfterTranslate(@, r)]
    /\ UNCHANGED <<probe, settings, doubles, store, next_id, clock>>

\* server_default=func.now(): the start of the transaction on PostgreSQL, the time of
\* the statement on SQLite.
ServerNow(call) == IF settings.database_url = "postgresql" THEN call.began ELSE clock

\* create_summary written as an upsert: on a conflict the stored row takes the
\* caller's values.
SaveOverwrites(c) ==
    /\ calls[c].pc = "save"
    /\ LET call == calls[c]
           url == Val(call.normalized_url)
           word_count == Val(call.word_count)
           old == Val(get_by_url_and_word_count(url, word_count))
           summary == Summary(next_id, url, word_count, Val(call.summary_text), call.origin,
                              call.summary_pt, call.pt_origin, ServerNow(call))
           merged == [summary EXCEPT !.id = old.id, !.created_at = old.created_at]
       IN  IF uq_summaries_url_word_count(store, url, word_count)
           THEN /\ store' = (store \ {old}) \cup {merged}
                /\ calls' = [calls EXCEPT ![c] = Return(call, Some(merged), "cache")]
                /\ UNCHANGED next_id
           ELSE /\ store' = store \cup {summary}
                /\ next_id' = next_id + 1
                /\ calls' = [calls EXCEPT ![c] =
                       [Return(call, Some(summary), "generated") EXCEPT
                           !.created_new = TRUE, !.writes = @ + 1]]
    /\ clock' = clock + 1
    /\ UNCHANGED <<probe, settings, doubles>>

\* create_summary, up to the commit: the row is inserted unless the unique constraint
\* is violated; then IntegrityError is caught and the session rolled back.
Save(c) ==
    /\ calls[c].pc = "save"
    /\ LET call == calls[c]
           url == Val(call.normalized_url)
           word_count == Val(call.word_count)
           summary == Summary(next_id, url, word_count, Val(call.summary_text), call.origin,
                              call.summary_pt, call.pt_origin, ServerNow(call))
       IN  IF uq_summaries_url_word_count(store, url, word_count)
           THEN /\ calls' = [calls EXCEPT ![c].pc = "reread"]
                /\ UNCHANGED <<store, next_id>>
           ELSE /\ store' = store \cup {summary}
                /\ next_id' = next_id + 1
                /\ calls' = [calls EXCEPT ![c] =
                       [Return(call, Some(summary), "generated") EXCEPT
                           !.created_new = TRUE, !.writes = @ + 1]]
    /\ clock' = clock + 1
    /\ UNCHANGED <<probe, settings, doubles>>

\* create_summary without its except clause: the IntegrityError reaches the caller.
RereadRaises(c) ==
    /\ calls[c].pc = "reread"
    /\ calls' = [calls EXCEPT ![c] = Raise(@, "IntegrityError")]
    /\ UNCHANGED <<probe, settings, doubles, store, next_id, clock>>

\* create_summary, after the rollback: re-read the row that won.
Reread(c) ==
    /\ calls[c].pc = "reread"
    /\ LET call == calls[c]
           existing == get_by_url_and_word_count(Val(call.normalized_url), Val(call.word_count))
           looked == [call EXCEPT !.lookups = @ + 1]
       IN  calls' = [calls EXCEPT ![c] =
                        IF existing = None THEN Raise(looked, "IntegrityError")
                        ELSE Return(looked, existing, "cache")]
    /\ UNCHANGED <<probe, settings, doubles, store, next_id, clock>>

\* get_summary_by_url
GetSummaryByUrl(c) ==
    /\ MayBegin(c)
    /\ \E url \in RequestUrls, word_count \in {None} \cup {Some(w) : w \in WordCounts} :
        LET n == _normalize_url(url)
            call == [calls[c] EXCEPT !.op = "get_by_url", !.bad_url = UrlDefect(url) # "none",
                                     !.normalized_url = n.url, !.word_count = word_count,
                                     !.began = clock]
            found == IF word_count = None
                     THEN get_latest_by_url(Val(n.url))
                     ELSE get_by_url_and_word_count(Val(n.url), Val(word_count))
        IN  calls' = [calls EXCEPT ![c] =
                         IF n.exc # NoExc THEN Raise(call, n.exc)
                         ELSE Return([call EXCEPT !.lookups = @ + 1], found, "none")]
    /\ clock' = clock + 1
    /\ UNCHANGED <<probe, settings, doubles, store, next_id>>

\* A direct call of the repository's create_summary, as in tests/test_summaries_repo.py.
CreateSummary(c) ==
    /\ MayBegin(c)
    /\ \E url \in {UrlPlain}, word_count \in WordCounts,
          summary_text \in {<<"b", ".">>}, summary_pt_origin \in {TRANSLATION_ORIGIN_DISABLED} :
        calls' = [calls EXCEPT ![c] =
                     [@ EXCEPT !.pc = "save", !.op = "create_summary",
                               !.normalized_url = Some(url), !.word_count = Some(word_count),
                               !.summary_text = Some(summary_text),
                               !.origin = SUMMARY_ORIGIN_LLM,
                               !.summary_pt = None, !.pt_origin = summary_pt_origin,
                               !.began = clock]]
    /\ UNCHANGED <<probe, settings, doubles, store, next_id, clock>>

\* An update that writes the row anew: created_at is taken again.
UpdateRecreatesRow(c) ==
    /\ MayBegin(c)
    /\ \E row \in store, summary_pt \in {Some(TEST_SUMMARY_PT)},
          summary_pt_origin \in {TRANSLATION_ORIGIN_LLM, TRANSLATION_ORIGIN_ERROR} :
        LET updated == [row EXCEPT !.summary_pt = summary_pt,
                                   !.summary_pt_origin = summary_pt_origin,
                                   !.created_at = clock,
                                   !.updated_at = Some(clock)]
        IN  /\ store' = (store \ {row}) \cup {updated}
            /\ calls' = [calls EXCEPT ![c] =
                   [Return(@, Some(updated), "none") EXCEPT
                       !.op = "update_summary_pt", !.normalized_url = Some(row.url),
                       !.word_count = Some(row.word_count), !.writes = 1]]
    /\ clock' = clock + 1
    /\ UNCHANGED <<probe, settings, doubles, next_id>>

\* update_summary_pt on a row loaded in the same session: the changed columns are
\* written and onupdate=func.now() sets updated_at.
UpdateSummaryPt(c) ==
    /\ MayBegin(c)
    /\ \E row \in store, summary_pt \in {Some(TEST_SUMMARY_PT)},
          summary_pt_origin \in {TRANSLATION_ORIGIN_LLM, TRANSLATION_ORIGIN_ERROR} :
        LET changed == row.summary_pt # summary_pt \/ row.summary_pt_origin # summary_pt_origin
            updated == IF changed
                       THEN [row EXCEPT !.summary_pt = summary_pt,
                                        !.summary_pt_origin = summary_pt_origin,
                                        !.updated_at = Some(clock)]
                       ELSE row
        IN  /\ store' = (store \ {row}) \cup {updated}
            /\ calls' = [calls EXCEPT ![c] =
                   [Return(@, Some(updated), "none") EXCEPT
                       !.op = "update_summary_pt", !.normalized_url = Some(row.url),
                       !.word_count = Some(row.word_count),
                       !.writes = IF changed THEN 1 ELSE 0]]
    /\ clock' = clock + 1
    /\ UNCHANGED <<probe, settings, doubles, next_id>>

Next ==
    \E c \in Calls :
        \/ BeginGetOrCreate(c)
        \/ Scrape(c)
        \/ Summarize(c)
        \/ Translate(c)
        \/ Save(c)
        \/ Reread(c)
        \/ GetSummaryByUrl(c)
        \/ CreateSummary(c)
        \/ UpdateSummaryPt(c)

Spec == Init /\ [][Next]_vars

(***************************************************************************)
(* The functions of the services called on their own: one direct call of   *)
(* a function with arguments of the caller's choice, and one more call of  *)
(* the normalizer on a URL it returned.                                    *)
(***************************************************************************)
MaxTextLen == 5
MaxWords == 3

Schemes == {"http", "https", "ftp"}
Hosts == {<<"en", "wikipedia", "org">>, <<"EN", "WIKIPEDIA", "ORG">>, <<"wikipedia", "org">>,
          <<"example", "com">>, <<"evilwikipedia", "org">>, <<>>}
Ports == {NoPort, <<80>>, <<443>>, <<8080>>, <<0>>}
Paths == {<<>>, <<"/">>, <<"/", "wiki", "/", "X">>, <<"/", "wiki", "/", "X", "/">>,
          <<"/", "wiki", "/", "X", "/", "/">>, <<"/", "wiki", "/">>,
          <<"/", "wiki", "/", "/">>, IndexPhp,
          <<"/", "about">>}
Queries == {<<>>, << <<"title", <<"X">> >> >>, << <<"title", <<"a", " ", "b">> >> >>,
            << <<"action", <<"edit">> >> >>}
Fragments == {"", "frag"}

\* The URLs the normalizer is called with.
UrlInputs ==
    {Url(scheme, host, port, path, query, fragment) :
        scheme \in Schemes, host \in Hosts, port \in Ports, path \in Paths,
        query \in Queries, fragment \in Fragments}

\* The texts the truncator is called with.
Alphabet == {"a", " ", ".", ","}
ShortTexts == UNION {[1..n -> Alphabet] : n \in 0..MaxTextLen}

\* n words separated by single spaces
Words(n) == [i \in 1..(2 * n - 1) |-> IF i % 2 = 1 THEN "a" ELSE " "]

SixSentences ==
    <<"a", ".", " ", "b", ".", " ", "a", ".", " ", "b", ".", " ", "a", ".", " ", "b", " ", "a", ".">>

PortugueseText ==
    <<"q", "u", "e", " ", "n", "ã", "o", " ", "f", "o", "i", " ", "q", "u", "e", " ", "n", "ã",
      "o", " ", "f", "o", "i", " ", "q", "u", "e", " ", "n", "ã", "o", " ", "f", "o", "i", " ",
      "c", "o", "m", "o", " ", "m", "a", "i", "s">>

EnglishText ==
    <<"t", "h", "e", " ", "c", "a", "t", " ", "s", "a", "t", " ", "o", "n", " ", "t", "h", "e",
      " ", "m", "a", "t", " ", "a", "n", "d", " ", "i", "t", " ", "w", "a", "s", " ", "o", "n",
      " ", "t", "h", "e", " ", "m", "a", "t", ".">>

\* A text of `stop` times the stopword "que" and then `other` times the word "x".
Phrase(stop, other) ==
    Join([i \in 1..(stop + other) |-> IF i <= stop THEN <<"q", "u", "e">> ELSE <<"x">>],
         <<" ">>)

\* Four stopwords and forty characters; one-letter stopwords only, among words
\* that are none.
FourStopwords == Phrase(4, 0) \o [i \in 1..30 |-> "."]
OneLetterStopwords ==
    Join([i \in 1..15 |-> IF i % 3 = 0 THEN <<"c", "a", "s", "a">> ELSE <<"e">>], <<" ">>)

\* The texts the language heuristic is called with: around each threshold.
LanguageTexts ==
    {Phrase(stop, other) : stop \in 0..4, other \in {0, 1, 2, 14, 15, 34, 35}}
    \cup {PortugueseText, EnglishText, FourStopwords, OneLetterStopwords, <<>>}

\* The texts summarize_text is called with.
ArticleTexts ==
    {<<>>, <<" ", "\n">>, <<"a", " ", " ", "b", ".", "\n", "a">>, SixSentences,
     Words(MAP_REDUCE_THRESHOLD_WORDS - 1), Words(MAP_REDUCE_THRESHOLD_WORDS), PortugueseText}

\* The summaries translate_summary_to_portuguese is called with.
SummaryTexts == {TEST_SUMMARY, PortugueseText, EnglishText}

\* Locations given without a scheme: another article of the same host, and a host.
RelativeArticle == Url("", <<>>, NoPort, <<"/", "wiki", "/", "Y">>, <<>>, "")
RelativeForeign == Url("", <<"example", "com">>, NoPort, <<"/", "wiki", "/", "X">>, <<>>, "")

\* The responses served to a fetch called on its own.
FetchScripts ==
    WebScripts
    \cup {<<Redirect(Some(UrlOther)), Redirect(Some(UrlForeign))>>,
          <<Redirect(Some(RelativeArticle)), Ok(<<1>>, TRUE, ParagraphsEn)>>,
          <<Redirect(Some(RelativeForeign))>>,
          <<Redirect(Some(UrlLookalike))>>,
          <<Redirect(Some(UrlOther)), Redirect(None)>>}

\* The word budgets and chunk counts the chunk target is computed for.
MaxFinalTarget == 300
MaxChunkCount == 4

\* The word budgets of a long summary: a chunk target between the clamps, and above.
LongWordCounts == {100, 300}

\* The bodies a response is read from: up to MaxChunks chunks of one or two bytes.
MaxChunks == 3
Bodies == UNION {[1..n -> 1..2] : n \in 0..MaxChunks}

\* The configurations the functions are called under.
FnSettings ==
    SettingsChoices
    \cup {MakeSettings(<<"sk-live">>, <<>>, FALSE, "sqlite"),
          [MakeSettings(<<"sk-live">>, <<>>, TRUE, "sqlite") EXCEPT !.wikipedia_max_redirects = 0]}

InitFn ==
    /\ settings \in FnSettings
    /\ doubles = None
    /\ store = {}
    /\ next_id = 1
    /\ clock = 1
    /\ calls = [c \in Calls |-> Idle]
    /\ probe = NoProbe

Called(fn, arg, out) == [fn |-> fn, arg |-> arg, out |-> out]

\* A direct call of a function touches neither the store nor the requests.
service == <<settings, doubles, store, next_id, clock, calls>>

\* A function that reads no setting is called under one configuration only.
ReadsNoSetting == settings = MakeSettings(<<"sk-live">>, <<"gpt-b">>, TRUE, "postgresql")

Normalize ==
    /\ probe = NoProbe
    /\ ReadsNoSetting
    /\ \E url \in UrlInputs :
        probe' = Called("normalize_wikipedia_url", <<url>>, normalize_wikipedia_url(url))
    /\ UNCHANGED service

\* A URL the normalizer returned is given to it again.
NormalizeAgain ==
    /\ probe.fn = "normalize_wikipedia_url"
    /\ probe.out.exc = NoExc
    /\ probe' = Called("normalize_wikipedia_url again", <<Val(probe.out.url)>>,
                       normalize_wikipedia_url(Val(probe.out.url)))
    /\ UNCHANGED service

Fetch ==
    /\ probe = NoProbe
    /\ \E url \in RequestUrls, web \in FetchScripts :
        probe' = Called("get_wikipedia_article_text", <<url, web>>,
                        get_wikipedia_article_text(url, web))
    /\ UNCHANGED service

ReadResponse ==
    /\ probe = NoProbe
    /\ ReadsNoSetting
    /\ \E chunks \in Bodies, max_bytes \in 0..(MaxContentBytes + 1) :
        probe' = Called("_read_response_limited", <<chunks, max_bytes>>,
                        _read_response_limited(chunks, max_bytes))
    /\ UNCHANGED service

LooksLikePortuguese ==
    /\ probe = NoProbe
    /\ ReadsNoSetting
    /\ \E text \in LanguageTexts :
        probe' = Called("_looks_like_portuguese", <<text>>, Some(_looks_like_portuguese(text)))
    /\ UNCHANGED service

MapChunkWordTarget ==
    /\ probe = NoProbe
    /\ ReadsNoSetting
    /\ \E final_word_count \in 1..MaxFinalTarget, chunk_count \in 0..MaxChunkCount :
        probe' = Called("_map_chunk_word_target", <<final_word_count, chunk_count>>,
                        Some(_map_chunk_word_target(final_word_count, chunk_count)))
    /\ UNCHANGED service

SplitIntoChunks ==
    /\ probe = NoProbe
    /\ ReadsNoSetting
    /\ \E text \in ShortTexts, max_words \in 1..MaxWords :
        probe' = Called("_split_text_into_chunks", <<text, max_words>>,
                        _split_text_into_chunks(text, max_words))
    /\ UNCHANGED service

\* Texts of six words, each word ending a sentence or not, and the limits they
\* are cut at: 60% of the limit is two words, and three.
SentenceTexts == {Join(words, <<" ">>) : words \in [1..6 -> {<<"a">>, <<"a", ".">>}]}
SentenceLimits == {4, 5}

Truncate ==
    /\ probe = NoProbe
    /\ ReadsNoSetting
    /\ \E input \in (ShortTexts \X (1..MaxWords)) \cup (SentenceTexts \X SentenceLimits) :
        probe' = Called("_truncate_to_word_limit", input,
                        _truncate_to_word_limit(input[1], input[2]))
    /\ UNCHANGED service

SummarizeText ==
    /\ probe = NoProbe
    /\ \E text \in ArticleTexts, word_count \in WordCounts \cup {MaxWords} \cup LongWordCounts,
          oracle \in LlmOracles \cup PatchedOracles \cup RaisingOracles :
        probe' = Called("summarize_text", <<text, word_count, oracle>>,
                        summarize_text(text, word_count, oracle))
    /\ UNCHANGED service

TranslateSummary ==
    /\ probe = NoProbe
    /\ \E summary_en \in SummaryTexts, word_count \in WordCounts,
          oracle \in LlmOracles \cup PatchedOracles \cup RaisingOracles :
        probe' = Called("translate_summary_to_portuguese", <<summary_en, word_count, oracle>>,
                        translate_summary_to_portuguese(summary_en, word_count, oracle))
    /\ UNCHANGED service

\* The double that raises at every generation call.
RaisesAlways == [raises |-> 1..MaxGenerationCalls, reply |-> ReplyJson, patched |-> "primary"]

\* get_or_create_summary, steps 3 and 4, on an article text that summarize_text
\* was called with: the summary is handled, translated by the model that served
\* the summarization or, with _invoke_with_fallback replaced, by the double that
\* raises, and the call stands before create_summary or has ended.
GenerateRecord ==
    /\ probe.fn = "summarize_text"
    /\ probe.arg[2] \in WordCounts \cup {MaxWords}
    /\ \E oracle \in {probe.arg[3]} \cup (IF Patched(probe.arg[3]) THEN {RaisesAlways} ELSE {}) :
        LET began == [Idle EXCEPT !.pc = "summarize", !.op = "get_or_create",
                                  !.word_count = Some(probe.arg[2]),
                                  !.article_text = Some(probe.arg[1])]
            Translated(call) ==
                IF call.pc # "translate" THEN call
                ELSE AfterTranslate(call, translate_summary_to_portuguese(
                                              Val(call.summary_text), probe.arg[2], oracle))
        IN  probe' = Called("get_or_create_summary",
                            <<probe.arg[1], probe.arg[2], probe.arg[3], oracle>>,
                            Translated(AfterSummarize(began, probe.out)))
    /\ UNCHANGED service

NextFn ==
    \/ Normalize
    \/ NormalizeAgain
    \/ Fetch
    \/ ReadResponse
    \/ LooksLikePortuguese
    \/ MapChunkWordTarget
    \/ SplitIntoChunks
    \/ Truncate
    \/ SummarizeText
    \/ TranslateSummary
    \/ GenerateRecord

SpecFn == InitFn /\ [][NextFn]_vars

(***************************************************************************)
(* Properties                                                              *)
(***************************************************************************)
GetOrCreate(c) == calls[c].op = "get_or_create"
Succeeded(c) == GetOrCreate(c) /\ calls[c].pc = "done" /\ calls[c].exc = NoExc
SameKey(c, d) ==
    /\ calls[c].normalized_url # None
    /\ calls[c].normalized_url = calls[d].normalized_url
    /\ calls[c].word_count = calls[d].word_count
\* A direct create_summary call may have stored the record of c's key.
DirectlyCreated(c) == \E d \in Calls : calls[d].op = "create_summary" /\ SameKey(c, d)
NoUpdates == \A c \in Calls : calls[c].op # "update_summary_pt"
\* Same id and same content; update_summary_pt may change the translation in between.
SameRecord(a, b) ==
    /\ a.id = b.id /\ a.url = b.url /\ a.word_count = b.word_count
    /\ a.summary = b.summary /\ a.summary_origin = b.summary_origin
    /\ a.created_at = b.created_at
    /\ NoUpdates => a = b
RanOnce(c) ==
    /\ calls[c].fetches = 1 /\ calls[c].summarizations = 1
    /\ calls[c].translations = 1 /\ calls[c].writes = 1
RanNothing(c) ==
    /\ calls[c].fetches = 0 /\ calls[c].summarizations = 0
    /\ calls[c].translations = 0 /\ calls[c].writes = 0 /\ calls[c].gens = <<>>

\* C1: concurrent get_or_create calls for one key that the store did not hold: no call
\* ever ends with the insert conflict (IntegrityError); of the calls that returned,
\* exactly one returned "generated", every other returned "cache", and all returned
\* the same record, the one inserted by the call that committed first.
C1_ConcurrentDuplicatesShareOneRecord ==
    /\ \A c \in Calls : calls[c].exc # "IntegrityError"
    /\ \A c \in Calls : Succeeded(c) /\ ~DirectlyCreated(c) =>
          /\ calls[c].source \in {"generated", "cache"}
          /\ \E w \in Calls :
                /\ Succeeded(w) /\ SameKey(c, w)
                /\ calls[w].source = "generated" /\ calls[w].created_new
          /\ \A d \in Calls \ {c} : Succeeded(d) /\ SameKey(c, d) =>
                /\ ~(calls[c].source = "generated" /\ calls[d].source = "generated")
                /\ SameRecord(Val(calls[c].result), Val(calls[d].result))

\* Two calls generated for the same key; one inserted, the other lost the race and
\* returned the winner's record.
C1_Witness ==
    \E c, d \in Calls :
        /\ c # d /\ Succeeded(c) /\ Succeeded(d) /\ SameKey(c, d)
        /\ calls[c].source = "generated"
        /\ calls[d].source = "cache" /\ calls[d].translations = 1

\* C2: in every reachable state the store holds at most one record per
\* (url, word_count).
C2_UniqueUrlWordCount ==
    \A r, q \in store : r.url = q.url /\ r.word_count = q.word_count => r = q

\* An insert for a stored key was refused.
C2_Witness == store # {} /\ \E c \in Calls : calls[c].pc = "reread"

\* C3: create_summary for a key that already has a record raises nothing: the refused
\* insert is rolled back, and the re-read returns the stored record with
\* created_new = FALSE, the store staying as it was.
C3_ConflictReturnsExisting ==
    [][\A c \in Calls :
          /\ (/\ calls[c].pc = "save" /\ calls'[c] # calls[c]
              /\ \E r \in store : /\ r.url = Val(calls[c].normalized_url)
                                  /\ r.word_count = Val(calls[c].word_count))
                => store' = store /\ calls'[c].pc = "reread" /\ calls'[c].exc = NoExc
          /\ (calls[c].pc = "reread" /\ calls'[c] # calls[c])
                => /\ store' = store
                   /\ calls'[c].pc = "done"
                   /\ calls'[c].exc = NoExc
                   /\ calls'[c].created_new = FALSE
                   /\ calls'[c].result # None
                   /\ Val(calls'[c].result) \in store
                   /\ Val(calls'[c].result).url = Val(calls[c].normalized_url)
                   /\ Val(calls'[c].result).word_count = Val(calls[c].word_count)
      ]_vars

\* A direct create_summary call for a stored key returned the stored record.
C3_Witness ==
    \E c \in Calls :
        /\ calls[c].op = "create_summary" /\ calls[c].pc = "done"
        /\ calls[c].exc = NoExc /\ ~calls[c].created_new
        /\ calls[c].result # None /\ Val(calls[c].result) \in store

\* C4: a get_or_create call that begins after a successful one for the same key has
\* returned is a cache hit: its first step ends it with source "cache" and the record
\* of the first, leaves the store as it was, and neither fetches, summarizes,
\* translates nor writes; each of these ran once in the first call if it generated.
C4_SecondCallIsCacheHit ==
    [][\A c, d \in Calls :
          /\ Succeeded(c)
          /\ calls[d].pc = "idle" /\ calls'[d].op = "get_or_create"
          /\ calls'[d].normalized_url = calls[c].normalized_url
          /\ calls'[d].word_count = calls[c].word_count
          => /\ store' = store
             /\ calls'[d].pc = "done" /\ calls'[d].exc = NoExc
             /\ calls'[d].source = "cache" /\ ~calls'[d].created_new
             /\ calls'[d].result # None
             /\ SameRecord(Val(calls[c].result), Val(calls'[d].result))
             /\ calls'[d].fetches = 0 /\ calls'[d].summarizations = 0
             /\ calls'[d].translations = 0 /\ calls'[d].writes = 0
             /\ calls'[d].gens = <<>>
             /\ calls[c].source = "generated" => RanOnce(c)
      ]_vars

\* The first call generated and stored; the second found the record and ran nothing.
C4_Witness ==
    \E c, d \in Calls :
        /\ Succeeded(c) /\ Succeeded(d) /\ c # d /\ SameKey(c, d)
        /\ calls[c].source = "generated" /\ RanOnce(c)
        /\ calls[d].source = "cache" /\ RanNothing(d)

\* C5: records of different word counts are separate: a call never gets a record of
\* another word count or URL, two successful calls for one URL and different word
\* counts return distinct records, and a call whose key no other call shares
\* generates: fetch, summarization, translation and insert run once.
C5_WordCountsAreSeparateRecords ==
    /\ \A c \in Calls :
          /\ calls[c].op \in {"get_or_create", "get_by_url"}
          /\ calls[c].pc = "done" /\ calls[c].result # None /\ calls[c].word_count # None
          => /\ Val(calls[c].result).word_count = Val(calls[c].word_count)
             /\ Val(calls[c].result).url = Val(calls[c].normalized_url)
    /\ \A c, d \in Calls :
          /\ Succeeded(c) /\ Succeeded(d)
          /\ calls[c].normalized_url = calls[d].normalized_url
          /\ calls[c].word_count # calls[d].word_count
          => Val(calls[c].result).id # Val(calls[d].result).id
    /\ \A c \in Calls :
          /\ Succeeded(c)
          /\ \A d \in Calls \ {c} :
                calls[d].op \in {"get_or_create", "create_summary"} => ~SameKey(c, d)
          => calls[c].source = "generated" /\ calls[c].created_new /\ RanOnce(c)

\* One URL, two word counts, two generated records.
C5_Witness ==
    \E c, d \in Calls :
        /\ Succeeded(c) /\ Succeeded(d)
        /\ calls[c].normalized_url = calls[d].normalized_url
        /\ calls[c].word_count # calls[d].word_count
        /\ calls[c].source = "generated" /\ calls[d].source = "generated"
        /\ Val(calls[c].result) \in store /\ Val(calls[d].result) \in store

\* C6: the summarization step never surfaces a failure: no get_or_create call whose
\* fetch succeeded ends with an exception raised by summarize_text.
C6_SummarizationNeverFails ==
    \A c \in Calls :
        /\ GetOrCreate(c) /\ calls[c].fetches = 1 /\ calls[c].fetch_exc = NoExc
        /\ calls[c].summarizations = 1 /\ calls[c].translations = 0
        => calls[c].exc = NoExc

\* C7: a translation that fails with SummarizationError does not fail the call: the
\* call goes on to the insert with summary_pt = None and origin "error", and the row
\* it inserts carries the summary and its origin as summarization returned them and
\* is returned with source "generated".
C7_TranslationFailureKeepsSummary ==
    /\ [](\A c \in Calls : calls[c].translation_exc = "SummarizationError" =>
             /\ calls[c].exc = NoExc
             /\ calls[c].pc \in {"save", "reread", "done"}
             /\ calls[c].pc = "save" =>
                   /\ calls[c].summary_pt = None
                   /\ calls[c].pt_origin = "error"
                   /\ calls[c].summary_text # None
             /\ calls[c].created_new =>
                   /\ calls[c].source = "generated"
                   /\ Val(calls[c].result).summary_pt = None
                   /\ Val(calls[c].result).summary_pt_origin = "error")
    /\ [][\A c \in Calls :
             /\ calls[c].translation_exc = "SummarizationError"
             /\ calls[c].pc = "save" /\ calls'[c].created_new
             => /\ Val(calls'[c].result) \in store'
                /\ Val(calls'[c].result).summary = Val(calls[c].summary_text)
                /\ Val(calls'[c].result).summary_origin = calls[c].origin]_vars

\* The translation failed and the call stored and returned the summary.
C7_Witness ==
    \E c \in Calls :
        /\ GetOrCreate(c) /\ calls[c].translation_exc = "SummarizationError"
        /\ calls[c].pc = "done" /\ calls[c].exc = NoExc /\ calls[c].created_new
        /\ calls[c].source = "generated" /\ Val(calls[c].result) \in store

\* C8: a failed fetch ends the call with the failure's own kind (URLValidationError as
\* InvalidInputError, ScrapingError as UpstreamServiceError); summarization and
\* translation are not invoked, the step leaves the store as it was and the call
\* inserts no record.
C8_FetchFailurePropagates ==
    /\ [](\A c \in Calls : calls[c].fetch_exc # NoExc =>
             /\ calls[c].fetch_exc \in {"URLValidationError", "ScrapingError"}
             /\ calls[c].pc = "done"
             /\ calls[c].exc = IF calls[c].fetch_exc = "URLValidationError"
                               THEN "InvalidInputError" ELSE "UpstreamServiceError"
             /\ calls[c].summarizations = 0 /\ calls[c].translations = 0
             /\ calls[c].gens = <<>>
             /\ calls[c].writes = 0 /\ ~calls[c].created_new /\ calls[c].result = None
             /\ \A r \in store :
                   /\ r.url = Val(calls[c].normalized_url)
                   /\ r.word_count = Val(calls[c].word_count)
                   => \E d \in Calls \ {c} : SameKey(c, d) /\ calls[d].created_new)
    /\ [][\A c \in Calls :
             calls[c].pc = "scrape" /\ calls'[c].fetch_exc # NoExc => store' = store]_vars

\* Fetches failed in both ways: a redirect off Wikipedia, and a scraping failure.
C8_Witness ==
    /\ \E c \in Calls : calls[c].fetch_exc = "URLValidationError" /\ calls[c].pc = "done"
    /\ \E d \in Calls : calls[d].fetch_exc = "ScrapingError" /\ calls[d].pc = "done"

\* C9: a generation call ends with a response or with SummarizationError, after at
\* least one attempt on the primary model; every attempt before the last failed, the
\* call succeeds exactly when its last attempt did, and the fallback model is tried
\* only after the attempts on the primary, all failed, and only when it is configured
\* and differs from the primary.
C9_FallbackOnlyAfterPrimaryExhausted ==
    \A c \in Calls : \A i \in 1..Len(calls[c].gens) :
        LET g == calls[c].gens[i]
            n == Len(g.invocations)
            OnPrimary(j) == g.invocations[j].model = settings.openai_model
        IN  /\ g.exc \in {NoExc, "SummarizationError"}
            /\ n >= 1
            /\ OnPrimary(1)
            /\ \A j \in 1..(n - 1) : g.invocations[j].failed
            /\ (g.exc = NoExc) = ~g.invocations[n].failed
            /\ \A j \in 1..(n - 1) : OnPrimary(j + 1) => OnPrimary(j)
            /\ (\E j \in 1..n : ~OnPrimary(j)) => _get_fallback_model # None
            /\ g.origin = IF g.exc # NoExc THEN NoOrigin
                          ELSE IF OnPrimary(n) THEN "llm" ELSE "llm_fallback"

(***************************************************************************)
(* Properties of the functions called on their own (SpecFn)                *)
(***************************************************************************)
Asked(fn) == probe.fn = fn

\* The purposes of the generation calls a direct call made, in order.
Purposes(gens) == [i \in 1..Len(gens) |-> gens[i].purpose]

\* C11: with a usable credential, summarize_text chooses map-reduce exactly when
\* the whitespace-normalized text has at least 1200 words: its generation calls
\* then begin with a map call; below 1200 words it issues exactly one generation
\* call, the single-pass call for the whole text.
C11_MapReduceFromThreshold ==
    (Asked("summarize_text") /\ _llm_available) =>
        LET words == WordCount(_normalize_whitespace(probe.arg[1]))
            purposes == Purposes(probe.out.gens)
        IN  IF words >= MAP_REDUCE_THRESHOLD_WORDS
            THEN purposes # <<>> /\ purposes[1] = "summary-map"
            ELSE purposes = <<"summary">>

\* A text of exactly 1200 words has been summarized under a usable credential,
\* and the first generation call was a map call.
C11_Witness ==
    /\ Asked("summarize_text") /\ _llm_available
    /\ WordCount(_normalize_whitespace(probe.arg[1])) = MAP_REDUCE_THRESHOLD_WORDS
    /\ Purposes(probe.out.gens)[1] = "summary-map"

\* C12: translate_summary_to_portuguese decides in a fixed order: translation
\* disabled gives (None, "disabled"); else a summary that looks Portuguese is
\* returned unchanged with "skipped"; else no usable credential gives
\* (None, "unavailable"); these three make no generation call.  Otherwise one
\* generation call is made: it returns with origin "llm" or "llm_fallback", or
\* it raises SummarizationError.
C12_TranslationOrder ==
    Asked("translate_summary_to_portuguese") =>
        LET summary_en == probe.arg[1]
            out == probe.out
            Returns(text, origin) ==
                out.exc = NoExc /\ out.text = text /\ out.origin = origin /\ out.gens = <<>>
        IN  IF ~settings.enable_portuguese_translation
            THEN Returns(None, TRANSLATION_ORIGIN_DISABLED)
            ELSE IF _looks_like_portuguese(summary_en)
            THEN Returns(Some(summary_en), TRANSLATION_ORIGIN_SKIPPED)
            ELSE IF ~_llm_available
            THEN Returns(None, TRANSLATION_ORIGIN_UNAVAILABLE)
            ELSE /\ Purposes(out.gens) = <<"translation">>
                 /\ \/ /\ out.exc = NoExc
                       /\ out.origin \in {TRANSLATION_ORIGIN_LLM, TRANSLATION_ORIGIN_LLM_FALLBACK}
                    \/ out.exc = "SummarizationError"

\* The first five sentences of a text, as one text.
FirstFiveSentences(text) == Join(Take(SentenceSplit(_normalize_whitespace(text)), 5), <<" ">>)

\* summarize_text has returned the extractive summary of the text it was given.
ReturnsExtract ==
    /\ probe.out.exc = NoExc
    /\ probe.out.origin = SUMMARY_ORIGIN_FALLBACK
    /\ probe.out.text =
           Some(_truncate_to_word_limit(FirstFiveSentences(probe.arg[1]), probe.arg[2]))
    /\ WordCount(Val(probe.out.text)) <= probe.arg[2]

\* C13 as stated: with no usable credential (blank or the placeholder),
\* summarize_text makes no generation call, hence no model invocation, and
\* returns the first five sentences of the text truncated to the word budget,
\* with origin "fallback", whatever the text.
C13_ExtractWithoutCredential ==
    (Asked("summarize_text") /\ ~_llm_available) =>
        probe.out.gens = <<>> /\ ReturnsExtract

\* C13: with no usable credential, summarize_text makes no generation call; for
\* a text that is not blank it returns the first five sentences truncated to the
\* word budget with origin "fallback", and for a blank text it raises
\* SummarizationError.
C13_ExtractOfNonBlankText ==
    (Asked("summarize_text") /\ ~_llm_available) =>
        /\ probe.out.gens = <<>>
        /\ IF _normalize_whitespace(probe.arg[1]) # <<>> THEN ReturnsExtract
           ELSE probe.out.exc = "SummarizationError" /\ probe.out.text = None

\* Under the placeholder credential a text of six sentences has been summarized
\* with room for all its words: five sentences came back.
C13_Witness ==
    /\ Asked("summarize_text") /\ ~_llm_available
    /\ probe.arg[1] = SixSentences /\ probe.arg[2] > WordCount(SixSentences)
    /\ probe.out.text = Some(FirstFiveSentences(SixSentences))
    /\ probe.out.gens = <<>>

\* C14: normalize_wikipedia_url is idempotent: given a URL it returned, paths
\* that ended in more than one slash included, it returns that URL unchanged.
C14_NormalizeIdempotent ==
    Asked("normalize_wikipedia_url again") =>
        probe.out.exc = NoExc /\ probe.out.url = Some(probe.arg[1])

(***************************************************************************)
(* Properties of the requests (Spec), continued                            *)
(***************************************************************************)
\* C15: a request whose URL has a scheme other than http and https, or a host
\* that is neither wikipedia.org nor a subdomain of it, ends with
\* InvalidInputError in both get_or_create_summary and get_summary_by_url,
\* before any store lookup, fetch or generation call, and returns no record.
C15_BadUrlRejectedFirst ==
    \A c \in Calls :
        (calls[c].op \in {"get_or_create", "get_by_url"} /\ calls[c].bad_url) =>
            /\ calls[c].pc = "done"
            /\ calls[c].exc = "InvalidInputError"
            /\ calls[c].result = None
            /\ calls[c].lookups = 0
            /\ RanNothing(c)
            /\ calls[c].gens = <<>>

\* One request of each kind has been rejected for its URL.
C15_Witness ==
    \E c, d \in Calls :
        /\ calls[c].op = "get_or_create" /\ calls[d].op = "get_by_url"
        /\ calls[c].bad_url /\ calls[d].bad_url
        /\ calls[c].exc = "InvalidInputError" /\ calls[d].exc = "InvalidInputError"
        /\ calls[c].lookups = 0 /\ calls[d].lookups = 0

(***************************************************************************)
(* Properties of the functions called on their own (SpecFn), continued     *)
(***************************************************************************)
DefaultPorts == {NoPort, <<80>>, <<443>>}

\* The URLs that differ from url only in scheme, case of the host, default port,
\* one trailing slash, fragment and, for an article path, query.
SameButForm(url) ==
    {Url(scheme, host, port, path, query, fragment) :
        scheme \in {"http", "https"},
        host \in {url.host, LowerHost(url.host)},
        port \in IF url.port \in DefaultPorts THEN DefaultPorts ELSE {url.port},
        path \in {url.path, url.path \o <<"/">>},
        query \in IF StartsWithWiki(url.path) THEN Queries ELSE {url.query},
        fragment \in Fragments}

\* C16: every URL the normalizer returns is canonical: scheme https, host in
\* lowercase, no default port (80, 443) and a non-default port kept, no query,
\* no fragment, a path that begins with /wiki/ and has no trailing slash; and
\* inputs that differ only in scheme, host case, default port, one trailing
\* slash, query or fragment give the same URL.
C16_NormalizedIsCanonical ==
    (Asked("normalize_wikipedia_url") /\ probe.out.exc = NoExc) =>
        LET given == probe.arg[1]
            url == Val(probe.out.url)
        IN  /\ url.scheme = "https"
            /\ url.host = LowerHost(given.host)
            /\ url.port = IF given.port \in DefaultPorts THEN NoPort ELSE given.port
            /\ url.query = <<>>
            /\ url.fragment = ""
            /\ StartsWithWiki(url.path)
            /\ url.path[Len(url.path)] # "/"
            /\ \A other \in SameButForm(given) : normalize_wikipedia_url(other) = probe.out

\* C17: during a fetch every redirect target goes through the normalizer before
\* it is requested, so no request is made to a host outside Wikipedia; and a
\* redirect to such a host ends the fetch there with URLValidationError
\* (InvalidInput), never ScrapingError, and without article text.
C17_RedirectsValidated ==
    Asked("get_wikipedia_article_text") =>
        LET web == probe.arg[2]
            requests == probe.out.requests
            Redirected(i) == i <= Len(web) /\ web[i].kind = "redirect" /\ web[i].location # None
            Target(i) == urljoin(requests[i], Val(web[i].location))
        IN  \A i \in 1..Len(requests) :
                /\ IsWikipediaHost(requests[i].host)
                /\ i > 1 => /\ Redirected(i - 1)
                            /\ normalize_wikipedia_url(Target(i - 1)).url = Some(requests[i])
                /\ (Redirected(i) /\ ~IsWikipediaHost(LowerHost(Target(i).host))) =>
                       /\ probe.out.exc = "URLValidationError"
                       /\ probe.out.text = None
                       /\ Len(requests) = i

\* A fetch has followed one redirect and was then redirected to a foreign host:
\* it made two requests and raised URLValidationError.
C17_Witness ==
    /\ Asked("get_wikipedia_article_text")
    /\ Len(probe.out.requests) = 2
    /\ probe.arg[2][2].kind = "redirect"
    /\ probe.arg[2][2].location = Some(UrlForeign)
    /\ probe.out.exc = "URLValidationError"

\* C18: a fetch makes at most max_redirects + 1 requests; when every request it
\* makes is answered by a redirect to a valid article URL it fails with
\* ScrapingError after max_redirects + 1 requests; and a redirect response
\* without a Location header makes it fail with ScrapingError.
C18_RedirectsBounded ==
    (Asked("get_wikipedia_article_text") /\ settings.wikipedia_max_redirects >= 0) =>
        LET web == probe.arg[2]
            requests == probe.out.requests
            Redirected(i) == i <= Len(web) /\ web[i].kind = "redirect"
            ValidRedirect(i) ==
                /\ Redirected(i) /\ web[i].location # None
                /\ RedirectTarget(requests[i], Val(web[i].location)).exc = NoExc
        IN  /\ Len(requests) <= settings.wikipedia_max_redirects + 1
            /\ (requests # <<>> /\ \A i \in 1..Len(requests) : ValidRedirect(i)) =>
                   /\ Len(requests) = settings.wikipedia_max_redirects + 1
                   /\ probe.out.exc = "ScrapingError" /\ probe.out.text = None
            /\ \A i \in 1..Len(requests) :
                   (Redirected(i) /\ web[i].location = None) =>
                       /\ Len(requests) = i
                       /\ probe.out.exc = "ScrapingError" /\ probe.out.text = None

\* A fetch that follows redirects has used up its requests on redirects to
\* articles and failed with ScrapingError.
C18_Witness ==
    /\ Asked("get_wikipedia_article_text")
    /\ probe.arg[2] = RedirectLoop
    /\ settings.wikipedia_max_redirects >= 1
    /\ Len(probe.out.requests) = settings.wikipedia_max_redirects + 1
    /\ probe.out.exc = "ScrapingError"

\* len(content) once every chunk is read
RECURSIVE BodySize(_)
BodySize(chunks) == IF chunks = <<>> THEN 0 ELSE Head(chunks) + BodySize(Tail(chunks))

\* C19: under a positive byte ceiling, a body of more bytes than the ceiling is
\* refused with ScrapingError and none of it is returned, and a body of exactly
\* the ceiling or less is read whole; a fetch whose response body exceeds the
\* configured ceiling fails with ScrapingError and returns no text, and one whose
\* body is within it is not refused for its size.
C19_BodyWithinCeiling ==
    /\ (Asked("_read_response_limited") /\ probe.arg[2] > 0) =>
           IF BodySize(probe.arg[1]) > probe.arg[2]
           THEN probe.out.exc = "ScrapingError" /\ probe.out.content = None
           ELSE probe.out.exc = NoExc /\ probe.out.content = Some(BodySize(probe.arg[1]))
    /\ (Asked("get_wikipedia_article_text") /\ settings.wikipedia_max_content_bytes > 0) =>
           LET web == probe.arg[2]
               last == Len(probe.out.requests)
               page == Val(web[last].page)
               text == _clean_text(page.paragraphs)
           IN  (last >= 1 /\ last <= Len(web) /\ web[last].kind = "ok") =>
                   IF BodySize(page.chunks) > settings.wikipedia_max_content_bytes
                   THEN probe.out.exc = "ScrapingError" /\ probe.out.text = None
                   ELSE (page.container
                         /\ WordCount(text) >= settings.wikipedia_min_article_words) =>
                            probe.out.exc = NoExc /\ probe.out.text = Some(text)

\* A body of exactly the ceiling, streamed in more than one chunk, has been read
\* whole.
C19_Witness ==
    /\ Asked("_read_response_limited")
    /\ Len(probe.arg[1]) > 1
    /\ BodySize(probe.arg[1]) = probe.arg[2]
    /\ probe.out.content = Some(probe.arg[2])

\* C20: for every text and every positive max_words, _truncate_to_word_limit
\* returns a text of at most max_words words that ends with . ! or ?, also
\* when the text given has max_words words or fewer.
C20_TruncatedEndsSentence ==
    Asked("_truncate_to_word_limit") =>
        /\ WordCount(probe.out) <= probe.arg[2]
        /\ EndsWithTerminal(probe.out)

\* C21: for every text and positive n, _split_text_into_chunks(text, n) returns
\* chunks that, joined by spaces in their order, hold exactly the words of the
\* text in their order; every chunk has at least one word and at most n; a text
\* that is empty or all whitespace gives no chunk.
C21_ChunksKeepTheWords ==
    Asked("_split_text_into_chunks") =>
        LET text == probe.arg[1]
            n == probe.arg[2]
            chunks == probe.out
        IN  /\ Split(Join(chunks, <<" ">>)) = Split(text)
            /\ Concat([i \in 1..Len(chunks) |-> Split(chunks[i])], 1, Len(chunks)) = Split(text)
            /\ \A i \in 1..Len(chunks) :
                   /\ chunks[i] # <<>>
                   /\ WordCount(chunks[i]) >= 1 /\ WordCount(chunks[i]) <= n
                   /\ i < Len(chunks) => WordCount(chunks[i]) = n
            /\ Split(text) = <<>> => chunks = <<>>

\* A text of three words has been split into chunks of at most two words: a full
\* chunk and a rest.
C21_Witness ==
    /\ Asked("_split_text_into_chunks")
    /\ WordCount(probe.arg[1]) = 3 /\ probe.arg[2] = 2
    /\ Len(probe.out) = 2
    /\ WordCount(probe.out[1]) = 2 /\ WordCount(probe.out[2]) = 1

\* The stored records of a URL, and the one of them created last: greatest
\* created_at, the higher id among equal created_at.
RowsOf(url) == {r \in store : r.url = url}
CreatedLast(r, rows) ==
    \A q \in rows : \/ q.created_at < r.created_at
                    \/ (q.created_at = r.created_at /\ q.id <= r.id)

\* C23: get_latest_by_url(url) returns, among the stored records of the URL, the
\* one with the greatest created_at (the higher id among equal created_at), and
\* none when the URL has no record.
C23_LatestIsCreatedLast ==
    \A url \in RequestUrls :
        IF RowsOf(url) = {} THEN get_latest_by_url(url) = None
        ELSE /\ get_latest_by_url(url) # None
             /\ Val(get_latest_by_url(url)) \in RowsOf(url)
             /\ CreatedLast(Val(get_latest_by_url(url)), RowsOf(url))

\* The step in which call c runs get_summary_by_url from start to end.
GetByUrlStep(c) == calls[c].pc = "idle" /\ calls'[c].op = "get_by_url"

SameButTranslation(r, q) ==
    /\ q.id = r.id /\ q.url = r.url /\ q.word_count = r.word_count
    /\ q.summary = r.summary /\ q.summary_origin = r.summary_origin
    /\ q.created_at = r.created_at

\* The step in which call c runs update_summary_pt from start to end.
UpdateTranslationStep(c) == calls[c].pc = "idle" /\ calls'[c].op = "update_summary_pt"

\* C24: a stored record is never deleted and its id, url, word_count, summary,
\* summary_origin and created_at never change; summary_pt, summary_pt_origin and
\* updated_at change in steps of update_summary_pt only.
C24_RecordsKeepTheirCore ==
    [][\A r \in store :
        /\ \E q \in store' : SameButTranslation(r, q)
        /\ \A q \in store' : q.id = r.id =>
               /\ SameButTranslation(r, q)
               /\ q # r => \E c \in Calls : UpdateTranslationStep(c)
    ]_vars

\* A record's translation has been replaced by update_summary_pt while another
\* record was stored after it.
C24_Witness ==
    /\ \E r \in store : r.updated_at # None /\ r.summary_pt = Some(TEST_SUMMARY_PT)
    /\ \E c \in Calls : calls[c].op = "update_summary_pt" /\ calls[c].writes = 1
    /\ \E c \in Calls : calls[c].created_new

\* C25: the url of every record that get_or_create_summary stored passes the
\* normalizer: normalize_wikipedia_url accepts it and returns it unchanged.
C25_StoredUrlIsNormalized ==
    \A c \in Calls :
        (calls[c].op = "get_or_create" /\ calls[c].created_new) =>
            LET url == Val(calls[c].result).url
            IN  /\ normalize_wikipedia_url(url).exc = NoExc
                /\ normalize_wikipedia_url(url).url = Some(url)

\* The recognized word tokens of a summary and its stopword hits: the tokens
\* that are stopwords of two letters or more.
Tokens(text) == FindWordsFrom(_normalize_whitespace(text), 1, <<>>)
StopwordHits(text) ==
    Cardinality({i \in 1..Len(Tokens(text)) :
                    Tokens(text)[i] \in PORTUGUESE_STOPWORDS /\ Len(Tokens(text)[i]) >= 2})
DenseInStopwords(text) ==
    /\ Len(Tokens(text)) >= 5
    /\ StopwordHits(text) >= 3
    /\ StopwordHits(text) * 100 >= 8 * Len(Tokens(text))

\* C26 as stated: the detection returns true exactly when the summary has at
\* least 5 word tokens, at least 3 stopword hits and a ratio of hits to tokens of
\* at least 8%, and nothing else decides.
C26_PortugueseByDensityAlone ==
    Asked("_looks_like_portuguese") =>
        (Val(probe.out) <=> DenseInStopwords(probe.arg[1]))

\* C26: the detection returns true exactly when the whitespace-normalized
\* summary has at least 40 characters, at least 5 word tokens, at least 3 hits of
\* stopwords of two letters or more, and a ratio of hits to tokens of at least 8%.
C26_PortugueseByLengthAndDensity ==
    Asked("_looks_like_portuguese") =>
        (Val(probe.out) <=> (/\ Len(_normalize_whitespace(probe.arg[1])) >= 40
                             /\ DenseInStopwords(probe.arg[1])))

\* A text of 37 tokens with 3 stopwords among them (8.1%) has been judged
\* Portuguese.
C26_Witness ==
    /\ Asked("_looks_like_portuguese")
    /\ Len(Tokens(probe.arg[1])) = 37 /\ StopwordHits(probe.arg[1]) = 3
    /\ Val(probe.out)

\* A reply that is not JSON, or is JSON without a non-blank text in the field.
Malformed(reply, field) ==
    \/ reply.parsed = None
    \/ field \notin DOMAIN Val(reply.parsed)
    \/ (field \in DOMAIN Val(reply.parsed) /\ Strip(Val(reply.parsed)[field]) = <<>>)

\* The well-formed reply that carries the whitespace-normalized raw text of a
\* reply in both fields.
WellFormed(reply) ==
    Content(reply.raw, Some([summary |-> _normalize_whitespace(reply.raw),
                             translation |-> _normalize_whitespace(reply.raw)]))

\* A generation step has run on the reply of the double: summarize_text with a
\* usable credential, or translate_summary_to_portuguese past its three checks.
GeneratedFromReply ==
    /\ \/ Asked("summarize_text")
       \/ /\ Asked("translate_summary_to_portuguese")
          /\ settings.enable_portuguese_translation
          /\ ~_looks_like_portuguese(probe.arg[1])
    /\ Patched(probe.arg[3])
    /\ _llm_available

\* C27: a non-empty reply that is not JSON, or is JSON without a non-blank text
\* in the expected field, is no error: the step returns what it returns for the
\* well-formed reply that carries the whitespace-normalized raw text, with the
\* same origin, and when the word budget allows it the text returned is the
\* normalized raw text itself.
C27_MalformedReplyUsedRaw ==
    (GeneratedFromReply /\ Strip(probe.arg[3].reply.raw) # <<>>
       /\ Malformed(probe.arg[3].reply,
                    IF Asked("summarize_text") THEN "summary" ELSE "translation")) =>
        LET reply == probe.arg[3].reply
            as_json == [probe.arg[3] EXCEPT !.reply = WellFormed(reply)]
            raw == _normalize_whitespace(reply.raw)
        IN  /\ probe.out.exc = NoExc
            /\ probe.out.text # None
            /\ probe.out.origin \in {SUMMARY_ORIGIN_LLM, SUMMARY_ORIGIN_LLM_FALLBACK,
                                     TRANSLATION_ORIGIN_LLM, TRANSLATION_ORIGIN_LLM_FALLBACK}
            /\ IF Asked("summarize_text")
               THEN /\ probe.out.text = summarize_text(probe.arg[1], probe.arg[2], as_json).text
                    /\ probe.out.origin = summarize_text(probe.arg[1], probe.arg[2], as_json).origin
               ELSE /\ probe.out.text =
                           translate_summary_to_portuguese(probe.arg[1], probe.arg[2], as_json).text
                    /\ probe.out.origin =
                           translate_summary_to_portuguese(probe.arg[1], probe.arg[2], as_json).origin
            /\ WordCount(raw) <= probe.arg[2] => probe.out.text = Some(raw)

\* summarize_text has returned the raw reply "b  a", whitespace-normalized, as
\* the summary of an article, with the origin of the fallback model.
C27_Witness ==
    /\ Asked("summarize_text") /\ GeneratedFromReply
    /\ probe.arg[3].reply = ReplyRaw /\ probe.arg[3].patched = "fallback"
    /\ probe.out.exc = NoExc
    /\ probe.out.text = Some(<<"b", " ", "a">>)
    /\ probe.out.origin = SUMMARY_ORIGIN_LLM_FALLBACK

\* C28: a model invocation that fails, by a timeout, by another exception or by
\* an empty response, is one failed attempt of its generation call: the call
\* made at least one invocation, it fails only when every invocation it made
\* failed, and it fails with SummarizationError (GenerationFailure) and with no
\* other error; nor does the function that made the call raise another error.
C28_InvocationFailureIsGenerationFailure ==
    ((Asked("summarize_text") \/ Asked("translate_summary_to_portuguese"))
       /\ ~Patched(probe.arg[3])) =>
        /\ probe.out.exc \in {NoExc, "SummarizationError"}
        /\ \A i \in 1..Len(probe.out.gens) :
               LET g == probe.out.gens[i]
               IN  /\ g.exc \in {NoExc, "SummarizationError"}
                   /\ Len(g.invocations) >= 1
                   /\ g.exc # NoExc =>
                          \A j \in 1..Len(g.invocations) : g.invocations[j].failed

\* floor(1.5 * final_target / chunk_count), clamped to [60, 200].
ClampedShare(final_target, chunk_count) ==
    LET share == CHOOSE t \in 0..(3 * final_target) :
                     /\ 2 * chunk_count * t <= 3 * final_target
                     /\ 3 * final_target < 2 * chunk_count * (t + 1)
    IN  IF share < MAP_MIN_SUMMARY_WORDS THEN MAP_MIN_SUMMARY_WORDS
        ELSE IF share > MAP_MAX_SUMMARY_WORDS THEN MAP_MAX_SUMMARY_WORDS
        ELSE share

\* The map calls of a direct call that answered.
AnsweredMapCalls ==
    {i \in 1..Len(probe.out.gens) : "partial" \in DOMAIN probe.out.gens[i]}

\* C29: for every positive final target and every chunk count of 2 or more,
\* _map_chunk_word_target is floor(1.5 * final_target / chunk_count) clamped to
\* [60, 200]; in map-reduce every map call is given that target for the number of
\* chunks of the text, and its partial summary is the reply truncated to it, of at
\* most that many words.
C29_ChunkTargetClamped ==
    /\ (Asked("_map_chunk_word_target") /\ probe.arg[2] >= 2) =>
           Val(probe.out) = ClampedShare(probe.arg[1], probe.arg[2])
    /\ Asked("summarize_text") =>
           \A i \in AnsweredMapCalls :
               LET g == probe.out.gens[i]
                   chunk_count ==
                       (WordCount(probe.arg[1]) + MAP_CHUNK_WORDS - 1) \div MAP_CHUNK_WORDS
                   reply == probe.arg[3].reply
                   said == IF Malformed(reply, "summary") THEN _normalize_whitespace(reply.raw)
                           ELSE _normalize_whitespace(Val(reply.parsed).summary)
               IN  /\ chunk_count >= 2
                   /\ g.target = ClampedShare(probe.arg[2], chunk_count)
                   /\ WordCount(g.partial) <= g.target
                   /\ Take(Split(g.partial), Len(Split(g.partial)) - 1)
                          = Take(Split(said), Len(Split(g.partial)) - 1)
                   /\ WordCount(said) <= g.target => g.partial = said

\* A text of 1200 words summarized to 100 words: two map calls with a target of
\* 75 words each, and the reply of ninety words cut to 75.
C29_Witness ==
    /\ Asked("summarize_text")
    /\ probe.arg[2] = 100 /\ WordCount(probe.arg[1]) = MAP_REDUCE_THRESHOLD_WORDS
    /\ Cardinality(AnsweredMapCalls) = 2
    /\ \A i \in AnsweredMapCalls :
           /\ probe.out.gens[i].target = 75
           /\ WordCount(probe.out.gens[i].partial) = 75

\* C30: a fetch whose extracted text has fewer words than
\* wikipedia_min_article_words fails with ScrapingError, so a call of
\* get_or_create_summary that has fetched its article and is about to summarize
\* holds a text of at least that many words.
C30_SummarizedTextLongEnough ==
    \A c \in Calls :
        /\ (doubles = None /\ calls[c].pc = "summarize") =>
               /\ calls[c].article_text # None
               /\ WordCount(Val(calls[c].article_text)) >= settings.wikipedia_min_article_words
               /\ calls[c].fetch_exc = NoExc
        /\ (doubles = None /\ calls[c].summarizations > 0) =>
               (calls[c].fetches = 1 /\ calls[c].fetch_exc = NoExc)

\* One call is about to summarize a text of exactly the minimum number of words
\* plus one, another has ended with the failure of its fetch.
C30_Witness ==
    /\ doubles = None
    /\ \E c \in Calls :
           /\ calls[c].pc = "summarize"
           /\ WordCount(Val(calls[c].article_text)) = settings.wikipedia_min_article_words + 1
    /\ \E d \in Calls :
           /\ calls[d].pc = "done" /\ calls[d].fetch_exc = "ScrapingError"
           /\ calls[d].exc = "UpstreamServiceError" /\ calls[d].summarizations = 0

\* The end given to a cut text: trailing separators removed, then a period unless
\* the text ends with . ! or ?.
Finished(t) ==
    LET stripped == RStripSet(t, {" ", ",", ";", ":", "-"})
    IN  IF stripped # <<>> /\ stripped[Len(stripped)] \in {".", "!", "?"} THEN stripped
        ELSE stripped \o <<".">>

\* The words before the limit that end a sentence: those ending with . ! or ?
\* that are followed by another word within the limit.
SentenceEnds(words, n) ==
    {i \in 1..(n - 1) : words[i][Len(words[i])] \in {".", "!", "?"}}

\* C33: for a text of more than max_words words, _truncate_to_word_limit returns
\* the first max_words words, or, when a sentence ends among them before the last
\* and the words up to the last such end are at least 60% of max_words (and at
\* least 1), those words; either way joined by single spaces, trailing separators
\* removed and a period added only when the result does not end with . ! or ?.
C33_TruncatedAtWordsOrSentence ==
    (Asked("_truncate_to_word_limit") /\ WordCount(probe.arg[1]) > probe.arg[2]) =>
        LET words == Split(probe.arg[1])
            n == probe.arg[2]
            ends == SentenceEnds(words, n)
            last == CHOOSE i \in ends : \A j \in ends : j <= i
            \* 10 * last > 6 * n - 10 exactly when last >= floor(0.6 * n)
            kept == IF ends # {} /\ 10 * last > 6 * n - 10 /\ last >= 1 THEN last ELSE n
        IN  probe.out = Finished(Join(SubSeq(words, 1, kept), <<" ">>))

\* A text of six words cut at five: a sentence ends at the third word, 60% of the
\* limit, and three words are returned.
C33_Witness ==
    /\ Asked("_truncate_to_word_limit")
    /\ probe.arg[2] = 5 /\ WordCount(probe.arg[1]) = 6
    /\ SentenceEnds(Split(probe.arg[1]), 5) = {3}
    /\ WordCount(probe.out) = 3

\* C40: _truncate_to_word_limit applied to a text it returned, with the same
\* limit, returns that text unchanged; so does it applied to the text that
\* summarize_text returned after truncating what its strategy had truncated.
C40_TruncateIdempotent ==
    /\ Asked("_truncate_to_word_limit") =>
           _truncate_to_word_limit(probe.out, probe.arg[2]) = probe.out
    /\ (Asked("summarize_text") /\ probe.out.exc = NoExc) =>
           _truncate_to_word_limit(Val(probe.out.text), probe.arg[2]) = Val(probe.out.text)

\* A text of more words than the limit was cut to the limit and given a period:
\* truncating the result again returns it.
C40_Witness ==
    /\ Asked("_truncate_to_word_limit")
    /\ WordCount(probe.arg[1]) > probe.arg[2] /\ probe.arg[2] >= 2
    /\ WordCount(probe.out) = probe.arg[2]
    /\ probe.out[Len(probe.out)] = "." /\ probe.arg[1][Len(probe.arg[1])] # "."
    /\ _truncate_to_word_limit(probe.out, probe.arg[2]) = probe.out

\* summarize_text has gone the map-reduce way: a usable credential and a text of
\* at least MAP_REDUCE_THRESHOLD_WORDS words.
MapReduced ==
    /\ Asked("summarize_text")
    /\ _llm_available
    /\ WordCount(probe.arg[1]) >= MAP_REDUCE_THRESHOLD_WORDS

\* The i-th run of at most MAP_CHUNK_WORDS words of a text, joined by single spaces.
ChunkOfWords(words, i) ==
    Join(SubSeq(words, MAP_CHUNK_WORDS * (i - 1) + 1, Min(MAP_CHUNK_WORDS * i, Len(words))),
         <<" ">>)

\* C31: map-reduce over the k >= 2 chunks of at most 800 words of a text issues
\* its generation calls in this order: one map call per chunk, in chunk order,
\* the i-th on chunk i and tagged i of k, then one reduce call on the partial
\* summaries joined by a blank line, with the final word count as its target.
\* A call is issued only when every call before it has succeeded, so the reduce
\* call follows k successful map calls, and when no call fails there are exactly
\* k + 1 calls.
C31_MapCallsThenOneReduce ==
    MapReduced =>
        LET words == Split(probe.arg[1])
            k == (Len(words) + MAP_CHUNK_WORDS - 1) \div MAP_CHUNK_WORDS
            gens == probe.out.gens
        IN  /\ k >= 2
            /\ Len(gens) \in 1..(k + 1)
            /\ \A i \in 1..Len(gens) :
                /\ i < Len(gens) => gens[i].exc = NoExc
                /\ i <= k =>
                    /\ gens[i].purpose = "summary-map"
                    /\ gens[i].chunk = ChunkOfWords(words, i)
                    /\ WordCount(gens[i].chunk) \in 1..MAP_CHUNK_WORDS
                    /\ gens[i].chunk_index = i
                    /\ gens[i].total_chunks = k
                /\ i = k + 1 =>
                    /\ gens[i].purpose = "summary-reduce"
                    /\ gens[i].summaries = Join([j \in 1..k |-> gens[j].partial], <<"\n", "\n">>)
                    /\ gens[i].target = probe.arg[2]
            /\ gens[Len(gens)].exc = NoExc => Len(gens) = k + 1

\* A text of two chunks: two map calls and the reduce call, all answered.
C31_Witness ==
    /\ MapReduced
    /\ Len(probe.out.gens) = 3
    /\ \A i \in 1..3 : probe.out.gens[i].exc = NoExc
    /\ probe.out.gens[2].chunk_index = 2 /\ probe.out.gens[2].total_chunks = 2
    /\ WordCount(probe.out.gens[2].chunk) = MAP_REDUCE_THRESHOLD_WORDS - MAP_CHUNK_WORDS
    /\ probe.out.gens[3].purpose = "summary-reduce"

\* C37: when a map call or the reduce call of map-reduce ends with
\* SummarizationError, it is the last generation call made, and summarize_text
\* returns the extractive fallback of the full text with origin "fallback".
C37_MapReduceAllOrNothing ==
    (MapReduced /\ \E i \in 1..Len(probe.out.gens) :
                       probe.out.gens[i].exc = "SummarizationError") =>
        LET gens == probe.out.gens
            fallback == _fallback_summary(probe.arg[1], probe.arg[2])
        IN  /\ gens[Len(gens)].exc = "SummarizationError"
            /\ \A i \in 1..(Len(gens) - 1) : gens[i].exc = NoExc
            /\ fallback.exc = NoExc
            /\ probe.out.exc = NoExc
            /\ probe.out.text = fallback.text
            /\ probe.out.origin = SUMMARY_ORIGIN_FALLBACK

\* The reduce call fails after two answered map calls: their partial summaries
\* are dropped and the fallback text is returned.
C37_Witness ==
    /\ MapReduced
    /\ Len(probe.out.gens) = 3
    /\ \A i \in 1..2 : probe.out.gens[i].exc = NoExc /\ "partial" \in DOMAIN probe.out.gens[i]
    /\ probe.out.gens[3].purpose = "summary-reduce"
    /\ probe.out.gens[3].exc = "SummarizationError"
    /\ probe.out.origin = SUMMARY_ORIGIN_FALLBACK
    /\ probe.out.text # None

\* C38: a generation call ends with a non-empty text, produced by its last
\* invocation, or with SummarizationError (GenerationFailure), after at most
\* max_attempts = max(1, retries + 1) invocations of the primary model and at
\* most max_attempts of the fallback model.
C38_GenerationCallEnds ==
    ((Asked("summarize_text") \/ Asked("translate_summary_to_portuguese"))
       /\ ~Patched(probe.arg[3])) =>
        \A i \in 1..Len(probe.out.gens) :
            LET g == probe.out.gens[i]
                OnModel(model) ==
                    {j \in 1..Len(g.invocations) : g.invocations[j].model = model}
            IN  /\ g.exc \in {NoExc, "SummarizationError"}
                /\ g.exc = NoExc =>
                       /\ g.invocations # <<>>
                       /\ ~g.invocations[Len(g.invocations)].failed
                /\ HasAttr(settings, "llm_max_retries") =>
                       \A model \in {g.invocations[j].model : j \in 1..Len(g.invocations)} :
                           Cardinality(OnModel(model))
                               <= Max(1, Max(0, settings.llm_max_retries) + 1)
                /\ Cardinality({g.invocations[j].model : j \in 1..Len(g.invocations)}) <= 2

\* get_or_create_summary has generated what it hands to create_summary.
Generated == Asked("get_or_create_summary") /\ probe.out.pc = "save"

\* C34: what get_or_create_summary hands to create_summary after summarize_text
\* and translate_summary_to_portuguese is a non-empty summary of at most
\* word_count words and, when there is a translation, one of at most word_count
\* words.
C34_SummaryWithinWordCount ==
    Generated =>
        /\ probe.out.summary_text # None
        /\ Val(probe.out.summary_text) # <<>>
        /\ WordCount(Val(probe.out.summary_text)) \in 1..probe.arg[2]
        /\ probe.out.summary_pt # None =>
               WordCount(Val(probe.out.summary_pt)) <= probe.arg[2]

\* A reply of ninety words for a budget of twenty: summary and translation are cut
\* to twenty words.
C34_Witness ==
    /\ Generated
    /\ probe.arg[2] = 20
    /\ Patched(probe.arg[3]) /\ probe.arg[3].reply = ReplyLong
    /\ probe.out.origin = SUMMARY_ORIGIN_LLM
    /\ WordCount(Val(probe.out.summary_text)) = 20
    /\ probe.out.summary_pt # None /\ WordCount(Val(probe.out.summary_pt)) = 20

\* C35: what get_or_create_summary hands to create_summary has a summary origin
\* among llm, llm_fallback, fallback and a translation origin among llm,
\* llm_fallback, skipped, disabled, unavailable, error; the translation is null
\* exactly when its origin is disabled, unavailable or error, and it is the
\* summary itself when its origin is skipped.
C35_OriginsAndTranslation ==
    Generated =>
        /\ probe.out.origin \in {SUMMARY_ORIGIN_LLM, SUMMARY_ORIGIN_LLM_FALLBACK,
                                 SUMMARY_ORIGIN_FALLBACK}
        /\ probe.out.pt_origin \in {TRANSLATION_ORIGIN_LLM, TRANSLATION_ORIGIN_LLM_FALLBACK,
                                    TRANSLATION_ORIGIN_SKIPPED, TRANSLATION_ORIGIN_DISABLED,
                                    TRANSLATION_ORIGIN_UNAVAILABLE, TRANSLATION_ORIGIN_ERROR}
        /\ probe.out.summary_pt = None <=>
               probe.out.pt_origin \in {TRANSLATION_ORIGIN_DISABLED,
                                        TRANSLATION_ORIGIN_UNAVAILABLE, TRANSLATION_ORIGIN_ERROR}
        /\ probe.out.pt_origin = TRANSLATION_ORIGIN_SKIPPED =>
               probe.out.summary_pt = probe.out.summary_text

\* A summary from the model whose translation failed: no translation, origin error.
C35_Witness ==
    /\ Generated
    /\ probe.out.origin = SUMMARY_ORIGIN_LLM_FALLBACK
    /\ probe.out.translation_exc = "SummarizationError"
    /\ probe.out.pt_origin = TRANSLATION_ORIGIN_ERROR
    /\ probe.out.summary_pt = None

\* The stored rows of a key whose translation is missing for good.
Untranslated(url, word_count) ==
    {r \in store : /\ r.url = url /\ r.word_count = word_count
                   /\ r.summary_pt_origin \in {TRANSLATION_ORIGIN_ERROR,
                                               TRANSLATION_ORIGIN_UNAVAILABLE,
                                               TRANSLATION_ORIGIN_DISABLED}}

\* Call c begins get_or_create_summary or get_summary_by_url with a valid URL and
\* a word count.
LookupBegins(c) ==
    /\ calls[c].pc = "idle" /\ calls'[c].pc # "idle"
    /\ calls'[c].op \in {"get_or_create", "get_by_url"}
    /\ calls'[c].normalized_url # None /\ calls'[c].word_count # None

\* C36: a get_or_create or get_by_url call that begins when the row of its key is
\* stored with translation origin error, unavailable or disabled ends at its
\* lookup: it returns that row as it is stored (from get_or_create with source
\* "cache"), it has fetched, summarized, translated and written nothing, and the
\* store is left as it was.
C36_TranslationNeverRepaired ==
    [][\A c \in Calls :
          LookupBegins(c) =>
              \A row \in Untranslated(Val(calls'[c].normalized_url), Val(calls'[c].word_count)) :
                  /\ calls'[c].pc = "done" /\ calls'[c].exc = NoExc
                  /\ calls'[c].result = Some(row)
                  /\ calls'[c].op = "get_or_create" => calls'[c].source = "cache"
                  /\ calls'[c].fetches = 0 /\ calls'[c].summarizations = 0
                  /\ calls'[c].translations = 0 /\ calls'[c].writes = 0
                  /\ store' = store]_vars

\* A row stored without translation, origin disabled, is returned from the cache
\* by a get_or_create call whose translation double would have answered.
C36_Witness ==
    \E c \in Calls :
        /\ calls[c].op = "get_or_create" /\ calls[c].pc = "done"
        /\ calls[c].source = "cache" /\ calls[c].translations = 0
        /\ calls[c].result # None
        /\ Val(calls[c].result) \in store
        /\ Val(calls[c].result).summary_pt = None
        /\ Val(calls[c].result).summary_pt_origin = TRANSLATION_ORIGIN_DISABLED
        /\ doubles # None /\ Val(doubles).translate = "text"

\* C39: get_or_create_summary looks up and stores its record under the normalized
\* request URL: the first HTTP request of its fetch goes to that very URL, and
\* the record it creates carries it, wherever redirects led the fetch.
C39_FetchStartsAtCacheKey ==
    \A c \in Calls :
        calls[c].op = "get_or_create" =>
            /\ calls[c].first_request # None =>
                   calls[c].first_request = calls[c].normalized_url
            /\ calls[c].created_new =>
                   Val(calls[c].result).url = Val(calls[c].normalized_url)

====
